---- MODULE Spec2Model ----
(***************************************************************************)
(* The JavaScript match core of the server (RuntimeJavascriptMatchCore):   *)
(* the lifecycle calls MatchInit .. MatchTerminate, Label(), and the       *)
(* dispatcher functions broadcastMessage, broadcastMessageDeferred,        *)
(* matchKick and matchLabelUpdate, together with the collaborators they    *)
(* call (presence list, router, registry, inbound channel).                *)
(***************************************************************************)
EXTENDS Integers, Sequences, FiniteSets, TLC

(***************************************************************************)
(* Bounds of the model.                                                    *)
(***************************************************************************)
MaxFilter == 3      \* longest recipient filter a handler passes
MaxQueue == 3       \* capacity of the inbound channel
MaxMsgs == 5        \* inbound messages produced in one behaviour

(***************************************************************************)
(* Values crossing the handler boundary.  A value is a record with a type  *)
(* tag t, an integer payload n and a string payload s; Absent stands for a *)
(* key that is not in the exported map (or an argument not passed).        *)
(***************************************************************************)
JsVal(t, n, s) == [t |-> t, n |-> n, s |-> s]
Absent == JsVal("absent", 0, "")
Nil == JsVal("nil", 0, "")
JsInt(n) == JsVal("int", n, "")
JsStr(s) == JsVal("str", 0, s)
JsBool(b) == JsVal("bool", IF b THEN 1 ELSE 0, "")
JsFloat == JsVal("float", 0, "5.5")
JsState(s) == JsVal("state", 0, s)

IsInt(v) == v.t = "int"
IsStr(v) == v.t = "str"
IsBool(v) == v.t = "bool"

\* A handler's outcome: it threw, returned something that does not export to
\* a map, or returned an object whose keys are the fields below.
HandlerRet(kind, tick_rate, lbl, state, accept, reject_msg) ==
    [kind |-> kind, tick_rate |-> tick_rate, label |-> lbl, state |-> state,
     accept |-> accept, reject_msg |-> reject_msg]
Threw == HandlerRet("throw", Absent, Absent, Absent, Absent, Absent)
NonObject == HandlerRet("nonobj", Absent, Absent, Absent, Absent, Absent)
NullRet == HandlerRet("null", Absent, Absent, Absent, Absent, Absent)
NoRet == HandlerRet("none", Absent, Absent, Absent, Absent, Absent)

\* What a lifecycle call returns to the scheduler.
CallResult(op, state, rate, accept, reason, err) ==
    [op |-> op, state |-> state, rate |-> rate, accept |-> accept,
     reason |-> reason, err |-> err]
NoResult == CallResult("none", Nil, 0, FALSE, "", "")

ErrHandler == "handler error"
ErrInitObject == "match_init is expected to return an object with 'state', 'tick_rate' and 'label' properties"
ErrInitNoRate == "match_init return value has no 'tick_rate' property"
ErrInitRate == "match_init 'tick_rate' must be a number between 1 and 30"
ErrInitLabel == "match_init 'label' value must be a string"
ErrInitState == "match_init is expected to return an object with a 'state' property"
ErrJoinAttemptObject == "match_join_attempt is expected to return an object with 'state' and 'accept' properties"
ErrJoinAttemptNoAccept == "match_join_attempt return value has an 'accept' property"
ErrJoinAttemptAccept == "match_join_attempt 'accept' property must be a boolean"
ErrJoinAttemptRejectMsg == "match_join_attempt 'reject_msg' property must be a string"
ErrJoinAttemptState == "match_join_attempt is expected to return an object with 'state' property"
ErrJoinObject == "match_join is expected to return an object with 'state' property"
ErrLeaveObject == "match_leave is expected to return an object with 'state' property"
ErrTerminateObject == "match_terminate is expected to return an object with 'state' property"
ErrMatchStopped == "match stopped"

MinTickRate == 1
MaxTickRate == 30

VARIABLES
    phase,        \* the scheduler's position: "uninit", "running", "failed",
                  \* "terminated" (MatchTerminate has returned), "stopped"
    label,        \* rm.label
    ctxLabel,     \* rm.ctx[match_label]
    ctxTickRate,  \* rm.ctx[match_tick_rate]
    bound,        \* rm.presenceList and rm.deferMessageFn are set
    stopped,      \* rm.stopped
    handlerRet,   \* what the handler of the last lifecycle call returned
    result,       \* what the last lifecycle call returned
    inputCh,      \* the inbound channel handed to MatchLoop
    nextMsg,      \* arrival number of the next inbound message
    loopPc,       \* MatchLoop's position: "idle", "drain", "handler"
    size,         \* MatchLoop's local: len(inputCh) at the start of the call
    loopI,        \* MatchLoop's local: the drain loop's counter i
    inputs,       \* MatchLoop's local: the message objects built so far
    snapNext,     \* nextMsg when the running MatchLoop call read len(inputCh)
    consumed,     \* messages passed to the loop handler by completed calls
    directory,    \* the presence list: the match's members, in order
    dpc,          \* position of the dispatcher call: "idle", "body", "deliver"
    dcall,        \* the dispatcher call in progress, or the last one
    dres,         \* its outcome
    dirAtResolve, \* the presence list as validateBroadcast read it
    resolved,     \* what validateBroadcast returned to the broadcast function
    sent,         \* the router's SendToPresenceIDs calls made by dcall
    deferred,     \* the messages dcall handed to the defer function
    kicked,       \* the registry's Kick calls made by dcall
    regLabel,     \* the label the registry holds for the match
    ctxCaller,    \* the caller identity keys of rm.ctx
    passedCtx,    \* the context the last lifecycle call passed to its handler
    httpTimeout,  \* n.httpClient.Timeout, in milliseconds
    httpLog       \* the httpRequest calls made so far, each with its outcome

coreVars == <<phase, label, ctxLabel, ctxTickRate, bound, stopped>>
callVars == <<handlerRet, result>>
loopVars == <<inputCh, nextMsg, loopPc, size, loopI, inputs, snapNext, consumed>>
dispVars == <<directory, dpc, dcall, dres, dirAtResolve, resolved, sent, deferred, kicked,
              regLabel>>
ctxVars == <<ctxCaller, passedCtx>>
hostVars == <<httpTimeout, httpLog>>
vars == <<coreVars, callVars, loopVars, dispVars, ctxVars, hostVars>>

(***************************************************************************)
(* The context handed to handlers                                          *)
(***************************************************************************)
\* uuid.UUID.String(): the canonical (lower-case) spelling of an id.
UuidString(id) ==
    CASE id = 1 -> "u1"
      [] id = 2 -> "u2"
      [] id = 11 -> "a1"
      [] id = 12 -> "a2"
      [] OTHER -> "00"

\* The caller identity keys of a context; "" (0 for the expiry) stands for
\* a key that is not set.
Identity(user_id, username, userVars, session_exp, session_id, client_ip, client_port) ==
    [user_id |-> user_id, username |-> username, vars |-> userVars,
     session_exp |-> session_exp, session_id |-> session_id, client_ip |-> client_ip,
     client_port |-> client_port]
NoIdentity == Identity("", "", "", 0, "", "", "")

\* A context object: the match's label and tick rate and the identity keys.
Context(match_label, match_tick_rate, identity) ==
    [match_label |-> match_label, match_tick_rate |-> match_tick_rate,
     identity |-> identity]

\* rm.ctx, the match's long-lived context.
MatchCtx == Context(ctxLabel, ctxTickRate, ctxCaller)

\* The caller MatchJoinAttempt is called for; vars "" is a nil map.
Caller(userID, sessionID, username, sessionExpiry, callerVars, clientIP, clientPort) ==
    [userID |-> userID, sessionID |-> sessionID, username |-> username,
     sessionExpiry |-> sessionExpiry, vars |-> callerVars, clientIP |-> clientIP,
     clientPort |-> clientPort]
Callers ==
    {Caller(11, 1, "alice", 3600, "lang=en", "10.0.0.1", "7000"),
     Caller(12, 2, "bob", 7200, "", "", "")}

\* The identity keys of a context that had the keys base after
\* MatchJoinAttempt's ctxObj.Set calls for the caller c.
JoinAttemptIdentity(base, c) ==
    Identity(UuidString(c.userID), c.username,
             IF c.vars # "" THEN c.vars ELSE base.vars,
             c.sessionExpiry, UuidString(c.sessionID),
             IF c.clientIP # "" THEN c.clientIP ELSE base.client_ip,
             IF c.clientPort # "" THEN c.clientPort ELSE base.client_port)

\* MatchJoinAttempt setting the caller's keys on rm.ctx itself instead of
\* on a copy of it.
CtxAfterJoinAttemptShared(base, c) == JoinAttemptIdentity(base, c)

\* The identity keys of rm.ctx after MatchJoinAttempt: the keys are set on
\* ctxObj, a new object, and rm.ctx is only read.
CtxAfterJoinAttempt(base, c) == base

(***************************************************************************)
(* MatchInit                                                               *)
(***************************************************************************)
\* MatchInit with the lower bound of the tick-rate check off by one.
MatchInitResultLooseRate(r) ==
    IF r.kind = "throw" THEN CallResult("init", Nil, 0, FALSE, "", ErrHandler)
    ELSE IF r.kind # "obj" THEN CallResult("init", Nil, 0, FALSE, "", ErrInitObject)
    ELSE IF r.tick_rate = Absent THEN CallResult("init", Nil, 0, FALSE, "", ErrInitNoRate)
    ELSE IF ~IsInt(r.tick_rate) THEN CallResult("init", Nil, 0, FALSE, "", ErrInitRate)
    ELSE IF r.tick_rate.n < 0 \/ r.tick_rate.n > MaxTickRate
         THEN CallResult("init", Nil, 0, FALSE, "", ErrInitRate)
    ELSE IF r.label # Absent /\ ~IsStr(r.label)
         THEN CallResult("init", Nil, 0, FALSE, "", ErrInitLabel)
    ELSE IF r.state = Absent THEN CallResult("init", Nil, 0, FALSE, "", ErrInitState)
    ELSE CallResult("init", r.state, r.tick_rate.n, FALSE, "", "")

\* The value MatchInit returns for a handler outcome r.
MatchInitResult(r) ==
    IF r.kind = "throw" THEN CallResult("init", Nil, 0, FALSE, "", ErrHandler)
    ELSE IF r.kind # "obj" THEN CallResult("init", Nil, 0, FALSE, "", ErrInitObject)
    ELSE IF r.tick_rate = Absent THEN CallResult("init", Nil, 0, FALSE, "", ErrInitNoRate)
    ELSE IF ~IsInt(r.tick_rate) THEN CallResult("init", Nil, 0, FALSE, "", ErrInitRate)
    ELSE IF r.tick_rate.n < MinTickRate \/ r.tick_rate.n > MaxTickRate
         THEN CallResult("init", Nil, 0, FALSE, "", ErrInitRate)
    ELSE IF r.label # Absent /\ ~IsStr(r.label)
         THEN CallResult("init", Nil, 0, FALSE, "", ErrInitLabel)
    ELSE IF r.state = Absent THEN CallResult("init", Nil, 0, FALSE, "", ErrInitState)
    ELSE CallResult("init", r.state, r.tick_rate.n, FALSE, "", "")

\* Label(): a read of rm.label.
Label == label

\* The init handler's possible outcomes.
TickRateValues ==
    {Absent, JsStr("5"), JsFloat, JsInt(0), JsInt(1), JsInt(10), JsInt(30), JsInt(31)}
LabelValues == {Absent, JsStr("arena-1"), JsStr(""), JsInt(3)}
StateValues == {Absent, Nil, JsState("s1"), JsState("s2")}
InitReturns ==
    {Threw, NonObject, NullRet} \cup
    {HandlerRet("obj", tr, lb, st, Absent, Absent) :
        tr \in TickRateValues, lb \in LabelValues, st \in StateValues}

MatchInit(r) ==
    /\ phase = "uninit"
    /\ handlerRet' = r
    /\ result' = MatchInitResult(r)
    /\ IF result'.err = ""
       THEN /\ ctxLabel' = (IF r.label = Absent THEN "" ELSE r.label.s)
            /\ ctxTickRate' = r.tick_rate.n
            /\ bound' = TRUE
            /\ phase' = "running"
       ELSE /\ UNCHANGED <<ctxLabel, ctxTickRate, bound>>
            /\ phase' = "failed"
    /\ UNCHANGED <<label, stopped, loopVars, dispVars>>
    /\ passedCtx' = MatchCtx
    /\ UNCHANGED <<ctxCaller, hostVars>>

(***************************************************************************)
(* MatchJoinAttempt                                                        *)
(***************************************************************************)
\* MatchJoinAttempt reading 'reject_msg' whatever 'accept' is.
MatchJoinAttemptResultAlwaysReadsMsg(r) ==
    IF r.kind = "throw" THEN CallResult("join_attempt", Nil, 0, FALSE, "", ErrHandler)
    ELSE IF r.kind # "obj"
         THEN CallResult("join_attempt", Nil, 0, FALSE, "", ErrJoinAttemptObject)
    ELSE IF r.accept = Absent
         THEN CallResult("join_attempt", Nil, 0, FALSE, "", ErrJoinAttemptNoAccept)
    ELSE IF ~IsBool(r.accept)
         THEN CallResult("join_attempt", Nil, 0, FALSE, "", ErrJoinAttemptAccept)
    ELSE IF r.reject_msg # Absent /\ ~IsStr(r.reject_msg)
         THEN CallResult("join_attempt", Nil, 0, FALSE, "", ErrJoinAttemptRejectMsg)
    ELSE IF r.state = Absent
         THEN CallResult("join_attempt", Nil, 0, FALSE, "", ErrJoinAttemptState)
    ELSE CallResult("join_attempt", r.state, 0, r.accept = JsBool(TRUE),
                    IF r.reject_msg # Absent THEN r.reject_msg.s ELSE "", "")

\* MatchJoinAttempt without the check that 'state' is present.
MatchJoinAttemptResultNoStateCheck(r) ==
    IF r.kind = "throw" THEN CallResult("join_attempt", Nil, 0, FALSE, "", ErrHandler)
    ELSE IF r.kind # "obj"
         THEN CallResult("join_attempt", Nil, 0, FALSE, "", ErrJoinAttemptObject)
    ELSE IF r.accept = Absent
         THEN CallResult("join_attempt", Nil, 0, FALSE, "", ErrJoinAttemptNoAccept)
    ELSE IF ~IsBool(r.accept)
         THEN CallResult("join_attempt", Nil, 0, FALSE, "", ErrJoinAttemptAccept)
    ELSE IF r.accept = JsBool(FALSE) /\ r.reject_msg # Absent /\ ~IsStr(r.reject_msg)
         THEN CallResult("join_attempt", Nil, 0, FALSE, "", ErrJoinAttemptRejectMsg)
    ELSE CallResult("join_attempt", IF r.state = Absent THEN Nil ELSE r.state, 0,
                    r.accept = JsBool(TRUE),
                    IF r.accept = JsBool(FALSE) /\ r.reject_msg # Absent
                    THEN r.reject_msg.s ELSE "",
                    "")

MatchJoinAttemptResult(r) ==
    IF r.kind = "throw" THEN CallResult("join_attempt", Nil, 0, FALSE, "", ErrHandler)
    ELSE IF r.kind # "obj"
         THEN CallResult("join_attempt", Nil, 0, FALSE, "", ErrJoinAttemptObject)
    ELSE IF r.accept = Absent
         THEN CallResult("join_attempt", Nil, 0, FALSE, "", ErrJoinAttemptNoAccept)
    ELSE IF ~IsBool(r.accept)
         THEN CallResult("join_attempt", Nil, 0, FALSE, "", ErrJoinAttemptAccept)
    ELSE IF r.accept = JsBool(FALSE) /\ r.reject_msg # Absent /\ ~IsStr(r.reject_msg)
         THEN CallResult("join_attempt", Nil, 0, FALSE, "", ErrJoinAttemptRejectMsg)
    ELSE IF r.state = Absent
         THEN CallResult("join_attempt", Nil, 0, FALSE, "", ErrJoinAttemptState)
    ELSE CallResult("join_attempt", r.state, 0, r.accept = JsBool(TRUE),
                    IF r.accept = JsBool(FALSE) /\ r.reject_msg # Absent
                    THEN r.reject_msg.s ELSE "",
                    "")

AcceptValues == {Absent, JsBool(TRUE), JsBool(FALSE), JsInt(1), JsStr("true")}
RejectMsgValues == {Absent, JsStr("full"), JsInt(7), Nil}
JoinAttemptReturns ==
    {Threw, NonObject, NullRet} \cup
    {HandlerRet("obj", Absent, Absent, st, ac, rm) :
        st \in StateValues, ac \in AcceptValues, rm \in RejectMsgValues}

MatchJoinAttempt(r) ==
    /\ phase = "running"
    /\ handlerRet' = r
    /\ result' = MatchJoinAttemptResult(r)
    /\ UNCHANGED <<coreVars, loopVars, dispVars>>
    /\ \E c \in Callers :
          /\ passedCtx' = Context(ctxLabel, ctxTickRate, JoinAttemptIdentity(ctxCaller, c))
          /\ ctxCaller' = CtxAfterJoinAttempt(ctxCaller, c)
    /\ UNCHANGED hostVars

(***************************************************************************)
(* MatchJoin, MatchLeave and MatchTerminate                                *)
(***************************************************************************)
\* MatchJoin handing back the state it was given together with the error
\* of a handler that threw.
MatchJoinResultKeepsState(r) ==
    IF r.kind = "throw" THEN CallResult("join", JsState("s0"), 0, FALSE, "", ErrHandler)
    ELSE IF r.kind # "obj" THEN CallResult("join", Nil, 0, FALSE, "", ErrJoinObject)
    ELSE IF r.state = Absent THEN CallResult("join", Nil, 0, FALSE, "", ErrJoinObject)
    ELSE CallResult("join", r.state, 0, FALSE, "", "")

\* What MatchJoin returns for the join handler's outcome r.
MatchJoinResult(r) ==
    IF r.kind = "throw" THEN CallResult("join", Nil, 0, FALSE, "", ErrHandler)
    ELSE IF r.kind # "obj" THEN CallResult("join", Nil, 0, FALSE, "", ErrJoinObject)
    ELSE IF r.state = Absent THEN CallResult("join", Nil, 0, FALSE, "", ErrJoinObject)
    ELSE CallResult("join", r.state, 0, FALSE, "", "")

\* What MatchLeave returns for the leave handler's outcome r.
MatchLeaveResult(r) ==
    IF r.kind = "throw" THEN CallResult("leave", Nil, 0, FALSE, "", ErrHandler)
    ELSE IF r.kind # "obj" THEN CallResult("leave", Nil, 0, FALSE, "", ErrLeaveObject)
    ELSE IF r.state = Absent THEN CallResult("leave", Nil, 0, FALSE, "", ErrLeaveObject)
    ELSE CallResult("leave", r.state, 0, FALSE, "", "")

\* What MatchTerminate returns for the terminate handler's outcome r.
MatchTerminateResult(r) ==
    IF r.kind = "throw" THEN CallResult("terminate", Nil, 0, FALSE, "", ErrHandler)
    ELSE IF r.kind # "obj" THEN CallResult("terminate", Nil, 0, FALSE, "", ErrTerminateObject)
    ELSE IF r.state = Absent
         THEN CallResult("terminate", Nil, 0, FALSE, "", ErrTerminateObject)
    ELSE CallResult("terminate", r.state, 0, FALSE, "", "")

\* The outcomes of a handler that returns at most a state.
StateReturns ==
    {Threw, NonObject, NullRet} \cup
    {HandlerRet("obj", Absent, Absent, st, Absent, Absent) : st \in StateValues}

MatchJoin(r) ==
    /\ phase = "running"
    /\ handlerRet' = r
    /\ result' = MatchJoinResult(r)
    /\ UNCHANGED <<coreVars, loopVars, dispVars>>
    /\ passedCtx' = MatchCtx
    /\ UNCHANGED <<ctxCaller, hostVars>>

MatchLeave(r) ==
    /\ phase = "running"
    /\ handlerRet' = r
    /\ result' = MatchLeaveResult(r)
    /\ UNCHANGED <<coreVars, loopVars, dispVars>>
    /\ passedCtx' = MatchCtx
    /\ UNCHANGED <<ctxCaller, hostVars>>

\* MatchTerminate returns to the scheduler, which makes no lifecycle call
\* after it.
MatchTerminate(r) ==
    /\ phase = "running"
    /\ handlerRet' = r
    /\ result' = MatchTerminateResult(r)
    /\ phase' = "terminated"
    /\ UNCHANGED <<label, ctxLabel, ctxTickRate, bound, stopped, loopVars, dispVars>>
    /\ passedCtx' = MatchCtx
    /\ UNCHANGED <<ctxCaller, hostVars>>

\* The scheduler, MatchTerminate having returned, stops the match.
SchedulerStop ==
    /\ phase = "terminated"
    /\ phase' = "stopped"
    /\ stopped' = TRUE
    /\ UNCHANGED <<label, ctxLabel, ctxTickRate, bound, callVars, loopVars, dispVars>>
    /\ UNCHANGED <<hostVars, ctxVars>>

(***************************************************************************)
(* MatchLoop and the inbound channel                                       *)
(***************************************************************************)
ErrLoopObject == "match_loop is expected to return an object with 'state' property"

Presence(user, sid, username, node) ==
    [user_id |-> user, session_id |-> sid, username |-> username, node |-> node]

\* The k-th inbound message (a MatchDataMessage): every second one has no data.
InboundMessage(k) ==
    [UserID |-> "user-1", SessionID |-> "u1", Username |-> "alice", Node |-> "n1",
     OpCode |-> k, Data |-> (IF k % 2 = 0 THEN Nil ELSE JsStr("ping")),
     Reliable |-> TRUE, ReceiveTime |-> 100 + k]

\* The object the loop handler is given for a message (the body of the drain loop).
MsgObj(msg) ==
    [sender |-> Presence(msg.UserID, msg.SessionID, msg.Username, msg.Node),
     op_code |-> msg.OpCode,
     data |-> (IF msg.Data # Nil THEN msg.Data ELSE Nil),
     reliable |-> msg.Reliable,
     receive_time_ms |-> msg.ReceiveTime]

\* A producer puts a message on the channel; a full channel takes no message.
Enqueue ==
    /\ phase = "running"
    /\ nextMsg <= MaxMsgs
    /\ Len(inputCh) < MaxQueue
    /\ inputCh' = Append(inputCh, InboundMessage(nextMsg))
    /\ nextMsg' = nextMsg + 1
    /\ UNCHANGED <<coreVars, callVars, dispVars, loopPc, size, loopI, inputs, snapNext,
                   consumed>>
    /\ UNCHANGED <<hostVars, ctxVars>>

\* MatchLoop taking one more than the channel holds as the number of
\* messages to receive.
LoopBeginOvercounts ==
    /\ phase = "running"
    /\ loopPc = "idle"
    /\ size' = Len(inputCh) + 1
    /\ inputs' = <<>>
    /\ loopI' = 1
    /\ loopPc' = "drain"
    /\ snapNext' = nextMsg
    /\ UNCHANGED <<coreVars, callVars, dispVars, inputCh, nextMsg, consumed>>
    /\ UNCHANGED <<hostVars, ctxVars>>

\* size := len(inputCh); inputs := make(..., 0, size)
LoopBegin ==
    /\ phase = "running"
    /\ loopPc = "idle"
    /\ size' = Len(inputCh)
    /\ inputs' = <<>>
    /\ loopI' = 1
    /\ loopPc' = "drain"
    /\ snapNext' = nextMsg
    /\ UNCHANGED <<coreVars, callVars, dispVars, inputCh, nextMsg, consumed>>
    /\ UNCHANGED <<hostVars, ctxVars>>

\* The drain loop running until the channel is empty instead of up to the
\* length read at the start.
DrainDoneWhenEmpty == inputCh = <<>>

\* The drain loop's exit condition: i <= size no longer holds.
DrainDone == loopI > size

\* One iteration of the drain loop that reads the head of the channel
\* without taking it out.
LoopReceiveKeepsMessage ==
    /\ loopPc = "drain"
    /\ ~DrainDone
    /\ inputCh # <<>>
    /\ inputs' = Append(inputs, MsgObj(Head(inputCh)))
    /\ loopI' = loopI + 1
    /\ UNCHANGED <<coreVars, callVars, dispVars, inputCh, nextMsg, loopPc, size, snapNext,
                   consumed>>
    /\ UNCHANGED <<hostVars, ctxVars>>

\* One iteration of the drain loop: msg := <-inputCh, which blocks on an
\* empty channel.
LoopReceive ==
    /\ loopPc = "drain"
    /\ ~DrainDone
    /\ inputCh # <<>>
    /\ inputs' = Append(inputs, MsgObj(Head(inputCh)))
    /\ inputCh' = Tail(inputCh)
    /\ loopI' = loopI + 1
    /\ UNCHANGED <<coreVars, callVars, dispVars, nextMsg, loopPc, size, snapNext, consumed>>
    /\ UNCHANGED <<hostVars, ctxVars>>

\* rm.loopFn(...) is called with the drained inputs.
LoopInvoke ==
    /\ loopPc = "drain"
    /\ DrainDone
    /\ loopPc' = "handler"
    /\ UNCHANGED <<coreVars, callVars, dispVars, inputCh, nextMsg, size, loopI, inputs,
                   snapNext, consumed>>
    /\ passedCtx' = MatchCtx
    /\ UNCHANGED <<ctxCaller, hostVars>>

\* MatchLoop without the test for a null or undefined return value: the
\* value goes on to the object test like any other.
MatchLoopResultNullIsMalformed(r) ==
    IF r.kind = "throw" THEN CallResult("loop", Nil, 0, FALSE, "", ErrHandler)
    ELSE IF r.kind # "obj" THEN CallResult("loop", Nil, 0, FALSE, "", ErrLoopObject)
    ELSE IF r.state = Absent THEN CallResult("loop", Nil, 0, FALSE, "", ErrLoopObject)
    ELSE CallResult("loop", r.state, 0, FALSE, "", "")

MatchLoopResult(r) ==
    IF r.kind = "throw" THEN CallResult("loop", Nil, 0, FALSE, "", ErrHandler)
    ELSE IF r.kind = "null" THEN CallResult("loop", Nil, 0, FALSE, "", "")
    ELSE IF r.kind # "obj" THEN CallResult("loop", Nil, 0, FALSE, "", ErrLoopObject)
    ELSE IF r.state = Absent THEN CallResult("loop", Nil, 0, FALSE, "", ErrLoopObject)
    ELSE CallResult("loop", r.state, 0, FALSE, "", "")

LoopReturns ==
    {Threw, NonObject, NullRet} \cup
    {HandlerRet("obj", Absent, Absent, st, Absent, Absent) : st \in StateValues}

\* The loop handler returns and MatchLoop returns to the scheduler.
LoopReturn(r) ==
    /\ loopPc = "handler"
    /\ handlerRet' = r
    /\ result' = MatchLoopResult(r)
    /\ consumed' = consumed + Len(inputs)
    /\ loopPc' = "idle"
    /\ UNCHANGED <<coreVars, dispVars, inputCh, nextMsg, size, loopI, inputs, snapNext>>
    /\ UNCHANGED <<hostVars, ctxVars>>

(***************************************************************************)
(* The presence list (MatchPresenceList) and the values of a broadcast     *)
(***************************************************************************)
ErrExpectsNumber == "expects number"
ErrExpectsBoolean == "expects boolean"
ErrExpectsString == "expects string"
ErrData == "expects data to be a string or nil"
ErrFilterArray == "expects an array of presences or nil"
ErrPresenceSet == "expects a valid set of presences"
ErrNoSessionID == "presence is expected to contain a 'session_id'"
ErrSessionIDString == "expects a 'session_id' string"
ErrSessionIDValid == "expects a valid 'session_id'"
ErrNoNodeID == "expects presence to contain a 'node_id'"
ErrNodeIDString == "expects a 'node_id' string"
ErrSenderObject == "expects sender to be an object"
ErrNoUserID == "expects presence to contain 'user_id'"
ErrUserIDString == "expects presence to contain 'user_id' string"
ErrUserIDValid == "expects presence to contain valid user_id"
ErrNoUsername == "presence is expected to contain a 'username'"
ErrUsernameString == "expects a 'username' string"
ErrKickArray == "expects an array of presence objects"
ErrDefer == "error deferring message broadcast"
ErrLabelUpdate == "error updating match label"

\* uuid.FromString: the id a string denotes, 0 when it denotes none.  Two
\* spellings of one id (here lower and upper case) denote the same id.
UuidFromString(str) ==
    CASE str \in {"u1", "U1"} -> 1
      [] str \in {"u2", "U2"} -> 2
      [] str \in {"a1", "A1"} -> 11
      [] str \in {"a2", "A2"} -> 12
      [] OTHER -> 0

PresenceID(sid, node) == [SessionID |-> sid, Node |-> node]
MatchPresence(user, sid, username, node) ==
    [UserID |-> user, SessionID |-> sid, Username |-> username, Node |-> node]

\* The participants that may be members of the match.
MemberA == MatchPresence(11, 1, "alice", "n1")
MemberB == MatchPresence(12, 1, "bob", "n2")
MemberC == MatchPresence(11, 2, "alice", "n1")
Members == {MemberA, MemberB, MemberC}

\* MatchPresenceList.ListPresenceIDs: the members' ids, in order, as a list
\* of the caller's own.
ListPresenceIDs(dir) == [k \in 1..Len(dir) |-> PresenceID(dir[k].SessionID, dir[k].Node)]

\* MatchPresenceList.Contains
Contains(dir, pid) ==
    \E k \in 1..Len(dir) : dir[k].SessionID = pid.SessionID /\ dir[k].Node = pid.Node

\* getJsInt, getJsBool, getJsString: "" when the value has the type.
GetJsIntErr(v) == IF IsInt(v) THEN "" ELSE ErrExpectsNumber
GetJsBoolErr(v) == IF IsBool(v) THEN "" ELSE ErrExpectsBoolean
GetJsStringErr(v) == IF IsStr(v) THEN "" ELSE ErrExpectsString

\* A presence object a handler passes (in a filter, or to matchKick).
Entry(kind, user_id, session_id, node_id) ==
    [kind |-> kind, user_id |-> user_id, session_id |-> session_id, node_id |-> node_id]
\* An array argument: absent (null or undefined), not an array, or an array.
ArrayArg(kind, items) == [kind |-> kind, items |-> items]
AbsentArray == ArrayArg("absent", <<>>)
NonArray == ArrayArg("nonarray", <<>>)
\* A sender argument.
Sender(kind, user_id, session_id, username) ==
    [kind |-> kind, user_id |-> user_id, session_id |-> session_id, username |-> username]
AbsentSender == Sender("absent", Absent, Absent, Absent)

\* The envelope's sender: set is FALSE for a nil *rtapi.UserPresence.
UserPresence(set, user, sid, username) ==
    [set |-> set, UserId |-> user, SessionId |-> sid, Username |-> username]
NoUserPresence == UserPresence(FALSE, "", "", "")
Envelope(set, id, presence, opCode, data, reliable) ==
    [set |-> set, MatchId |-> id, Presence |-> presence, OpCode |-> opCode, Data |-> data,
     Reliable |-> reliable]
NoEnvelope == Envelope(FALSE, "", NoUserPresence, 0, Nil, FALSE)
idStr == "match-1.n1"

\* What validateBroadcast hands back: the panic it raised ("" for none) and
\* its three return values.
BResult(err, pids, msg, reliable) ==
    [err |-> err, pids |-> pids, msg |-> msg, reliable |-> reliable]
BError(err) == BResult(err, <<>>, NoEnvelope, FALSE)
BNoop == BResult("", <<>>, NoEnvelope, FALSE)

\* The body of the loop over the filter: the error of one entry.
FilterEntryErr(e) ==
    IF e.kind # "obj" THEN ErrPresenceSet
    ELSE IF e.session_id \in {Absent, Nil} THEN ErrNoSessionID
    ELSE IF ~IsStr(e.session_id) THEN ErrSessionIDString
    ELSE IF UuidFromString(e.session_id.s) = 0 THEN ErrSessionIDValid
    ELSE IF e.node_id \in {Absent, Nil} THEN ErrNoNodeID
    ELSE IF ~IsStr(e.node_id) THEN ErrNodeIDString
    ELSE ""

FilterEntryID(e) == PresenceID(UuidFromString(e.session_id.s), e.node_id.s)

RECURSIVE FirstFilterErr(_)
FirstFilterErr(items) ==
    IF items = <<>> THEN ""
    ELSE IF FilterEntryErr(Head(items)) # "" THEN FilterEntryErr(Head(items))
    ELSE FirstFilterErr(Tail(items))

\* The sender's validation; the username is taken from sidVal.
SenderErr(sd) ==
    IF sd.kind # "obj" THEN ErrSenderObject
    ELSE IF sd.user_id \in {Absent, Nil} THEN ErrNoUserID
    ELSE IF ~IsStr(sd.user_id) THEN ErrUserIDString
    ELSE IF UuidFromString(sd.user_id.s) = 0 THEN ErrUserIDValid
    ELSE IF sd.session_id \in {Absent, Nil} THEN ErrNoSessionID
    ELSE IF ~IsStr(sd.session_id) THEN ErrSessionIDString
    ELSE IF UuidFromString(sd.session_id.s) = 0 THEN ErrSessionIDValid
    ELSE IF sd.username \in {Absent, Nil} THEN ErrNoUsername
    ELSE ""

SenderPresence(sd) ==
    IF sd.kind = "absent" THEN NoUserPresence
    ELSE UserPresence(TRUE, sd.user_id.s, sd.session_id.s, sd.session_id.s)

\* s[k] = s[len(s)-1]; s = s[:len(s)-1]
DropSwapLast(sq, k) == SubSeq([sq EXCEPT ![k] = sq[Len(sq)]], 1, Len(sq) - 1)

\* The first index of actual that matches pid, 0 when none does.
MatchIndex(actual, pid) ==
    IF \E j \in 1..Len(actual) : actual[j] = pid
    THEN CHOOSE j \in 1..Len(actual) :
            /\ actual[j] = pid
            /\ \A h \in 1..(j - 1) : actual[h] # pid
    ELSE 0

\* The reconciliation loop that leaves a matched member in the list it
\* matches against, so that a second entry naming it matches again.
RECURSIVE ReconcileKeepsMatched(_, _, _)
ReconcileKeepsMatched(pids, actual, i) ==
    IF i > Len(pids) THEN pids
    ELSE IF MatchIndex(actual, pids[i]) # 0
         THEN ReconcileKeepsMatched(pids, actual, i + 1)
         ELSE ReconcileKeepsMatched(DropSwapLast(pids, i), actual, i)

\* The reconciliation loop that never looks again at the entry it moved
\* into the place of a dropped one.
RECURSIVE ReconcileSkipsMoved(_, _, _)
ReconcileSkipsMoved(pids, actual, i) ==
    IF i > Len(pids) THEN pids
    ELSE IF MatchIndex(actual, pids[i]) # 0
         THEN ReconcileSkipsMoved(pids, DropSwapLast(actual, MatchIndex(actual, pids[i])), i + 1)
         ELSE ReconcileSkipsMoved(DropSwapLast(pids, i), actual, i + 1)

\* The reconciliation loop that drops a non-member by cutting the list's
\* last entry without first moving it into the non-member's place.
RECURSIVE ReconcileCutsLast(_, _, _)
ReconcileCutsLast(pids, actual, i) ==
    IF i > Len(pids) THEN pids
    ELSE IF MatchIndex(actual, pids[i]) # 0
         THEN ReconcileCutsLast(pids, DropSwapLast(actual, MatchIndex(actual, pids[i])), i + 1)
         ELSE ReconcileCutsLast(SubSeq(pids, 1, Len(pids) - 1), actual, i)

\* The loop over presenceIDs from index i on (1-based): an entry found in
\* actual is kept and its match dropped from actual; one not found is
\* replaced by the last entry, the list is cut by one and i is looked at again.
RECURSIVE Reconcile(_, _, _)
Reconcile(pids, actual, i) ==
    IF i > Len(pids) THEN pids
    ELSE IF MatchIndex(actual, pids[i]) # 0
         THEN Reconcile(pids, DropSwapLast(actual, MatchIndex(actual, pids[i])), i + 1)
         ELSE Reconcile(DropSwapLast(pids, i), actual, i)

\* The presence ids of a parsed filter that are to receive the message.
ExistingPresenceIDs(pids, dir) ==
    IF Len(pids) = 1
    THEN (IF Contains(dir, pids[1]) THEN pids ELSE <<>>)
    ELSE Reconcile(pids, ListPresenceIDs(dir), 1)

\* The test for a filter that was given and is empty, with the comparison
\* against nil the wrong way round.
FilterIsEmptyWhenNil(f) == f.kind # "array" /\ Len(f.items) = 0

\* presenceIDs != nil && len(presenceIDs) == 0
FilterIsEmpty(f) == f.kind = "array" /\ Len(f.items) = 0

\* The last step of validateBroadcast forgetting the members of the match.
AllOrGivenForgetsAll(f, pids, dir) == IF f.kind = "absent" THEN <<>> ELSE pids

\* if presenceIDs == nil { presenceIDs = rm.presenceList.ListPresenceIDs() }
AllOrGiven(f, pids, dir) == IF f.kind = "absent" THEN ListPresenceIDs(dir) ELSE pids

\* A dispatcher call and its arguments.
DCall(fn, opCode, data, filter, sender, reliable, input, lbl) ==
    [fn |-> fn, opCode |-> opCode, data |-> data, filter |-> filter, sender |-> sender,
     reliable |-> reliable, input |-> input, label |-> lbl]
NoCall == DCall("none", Absent, Absent, AbsentArray, AbsentSender, Absent, AbsentArray, Absent)

\* The reliable flag defaulting to false when the argument is left out.
ReliableOfDefaultsFalse(v) == IF v \in {Absent, Nil} THEN FALSE ELSE v = JsBool(TRUE)

\* reliable := true; if the argument is given, reliable = getJsBool(argument)
ReliableOf(v) == IF v \in {Absent, Nil} THEN TRUE ELSE v = JsBool(TRUE)

\* validateBroadcast for the call c against the presence list dir.
ValidateBroadcast(c, dir) ==
    IF GetJsIntErr(c.opCode) # "" THEN BError(GetJsIntErr(c.opCode))
    ELSE IF c.data \notin {Absent, Nil} /\ ~IsStr(c.data) THEN BError(ErrData)
    ELSE IF c.filter.kind = "nonarray" THEN BError(ErrFilterArray)
    ELSE IF FirstFilterErr(c.filter.items) # "" THEN BError(FirstFilterErr(c.filter.items))
    ELSE IF FilterIsEmpty(c.filter) THEN BNoop
    ELSE IF c.sender.kind # "absent" /\ SenderErr(c.sender) # ""
         THEN BError(SenderErr(c.sender))
    ELSE LET parsed == [k \in 1..Len(c.filter.items) |-> FilterEntryID(c.filter.items[k])]
             pids == IF c.filter.kind = "array"
                     THEN ExistingPresenceIDs(parsed, dir) ELSE <<>>
             reliable == ReliableOf(c.reliable)
         IN  IF c.filter.kind = "array" /\ Len(pids) = 0 THEN BNoop
             ELSE IF c.reliable \notin {Absent, Nil} /\ GetJsBoolErr(c.reliable) # ""
                  THEN BError(GetJsBoolErr(c.reliable))
             ELSE BResult("", AllOrGiven(c.filter, pids, dir),
                          Envelope(TRUE, idStr, SenderPresence(c.sender), c.opCode.n,
                                   IF c.data = Absent THEN Nil ELSE c.data, reliable),
                          reliable)

(***************************************************************************)
(* The dispatcher functions                                                *)
(***************************************************************************)
Outcome(status, err) == [status |-> status, err |-> err]
NoOutcome == Outcome("none", "")
Running == Outcome("running", "")
Returned == Outcome("returned", "")
Raised(err) == Outcome("raised", err)

BroadcastFns == {"broadcastMessage", "broadcastMessageDeferred"}
stream == [Mode |-> "StreamModeMatchAuthoritative", Subject |-> "match-1", Label |-> "n1"]

\* The stopped check with its condition negated.
EnterRejectsInverted == ~stopped

\* A dispatcher function is entered without looking at the stopped flag.
EnterRejectsNever == FALSE

\* if rm.stopped.Load() { panic("match stopped") }
EnterRejects == stopped

\* The handler calls a dispatcher function: the function reads the flag.
DispatcherEnter(c) ==
    /\ phase \in {"running", "stopped"}
    /\ dpc = "idle"
    /\ dres = NoOutcome
    /\ dcall' = c
    /\ IF EnterRejects
       THEN /\ dres' = Raised(ErrMatchStopped)
            /\ UNCHANGED <<dpc, dirAtResolve, resolved, sent, deferred, kicked>>
       ELSE /\ dres' = Running
            /\ dpc' = "body"
            /\ dirAtResolve' = <<>>
            /\ resolved' = BNoop
            /\ sent' = <<>>
            /\ deferred' = <<>>
            /\ kicked' = <<>>
    /\ UNCHANGED <<coreVars, callVars, loopVars, directory, regLabel>>
    /\ UNCHANGED <<hostVars, ctxVars>>

\* The reconciliation loop's writes landing in the presence list's own
\* array, list being that array and n the length of the loop's slice of it:
\* each match at j is overwritten with the slice's last entry.
RECURSIVE AliasedWrites(_, _, _, _)
AliasedWrites(pids, list, n, i) ==
    IF i > Len(pids) THEN list
    ELSE LET ids == [k \in 1..n |-> PresenceID(list[k].SessionID, list[k].Node)]
             j == MatchIndex(ids, pids[i])
         IN  IF j # 0
             THEN AliasedWrites(pids, [list EXCEPT ![j] = list[n]], n - 1, i + 1)
             ELSE AliasedWrites(DropSwapLast(pids, i), list, n, i)

\* validateBroadcast working on the presence list's own array instead of a
\* list of its own.
DirectoryAfterResolveAliased(c, dir) ==
    IF /\ GetJsIntErr(c.opCode) = ""
       /\ c.data \in {Absent, Nil} \/ IsStr(c.data)
       /\ c.filter.kind = "array"
       /\ Len(c.filter.items) > 1
       /\ FirstFilterErr(c.filter.items) = ""
       /\ c.sender.kind = "absent" \/ SenderErr(c.sender) = ""
    THEN AliasedWrites([k \in 1..Len(c.filter.items) |-> FilterEntryID(c.filter.items[k])],
                       dir, Len(dir), 1)
    ELSE dir

\* The presence list after validateBroadcast: the loop's writes
\* (actualPresenceIDs[j] = actualPresenceIDs[last]) go to the list that
\* ListPresenceIDs returned, which is the caller's own.
DirectoryAfterResolve(c, dir) == dir

\* presenceIDs, msg, reliable := rm.validateBroadcast(r, f)
BroadcastValidate ==
    /\ dpc = "body"
    /\ dcall.fn \in BroadcastFns
    /\ dirAtResolve' = directory
    /\ directory' = DirectoryAfterResolve(dcall, directory)
    /\ LET v == ValidateBroadcast(dcall, directory)
       IN  IF v.err # ""
           THEN dres' = Raised(v.err) /\ dpc' = "idle" /\ UNCHANGED resolved
           ELSE IF Len(v.pids) = 0
           THEN dres' = Returned /\ dpc' = "idle" /\ resolved' = v
           ELSE dres' = Running /\ dpc' = "deliver" /\ resolved' = v
    /\ UNCHANGED <<coreVars, callVars, loopVars, dcall, sent, deferred, kicked, regLabel>>
    /\ UNCHANGED <<hostVars, ctxVars>>

\* rm.router.SendToPresenceIDs(rm.logger, presenceIDs, msg, reliable)
BroadcastSend ==
    /\ dpc = "deliver"
    /\ dcall.fn = "broadcastMessage"
    /\ sent' = Append(sent, [PresenceIDs |-> resolved.pids, Envelope |-> resolved.msg,
                             Reliable |-> resolved.reliable])
    /\ dres' = Returned
    /\ dpc' = "idle"
    /\ UNCHANGED <<coreVars, callVars, loopVars, directory, dcall, dirAtResolve, resolved,
                   deferred, kicked, regLabel>>
    /\ UNCHANGED <<hostVars, ctxVars>>

\* broadcastMessageDeferred ignoring the error the defer function returns.
BroadcastDeferSwallowsError(ok) ==
    /\ dpc = "deliver"
    /\ dcall.fn = "broadcastMessageDeferred"
    /\ deferred' = Append(deferred, [PresenceIDs |-> resolved.pids, Envelope |-> resolved.msg,
                                     Reliable |-> resolved.reliable, Accepted |-> ok])
    /\ dres' = Returned
    /\ dpc' = "idle"
    /\ UNCHANGED <<coreVars, callVars, loopVars, directory, dcall, dirAtResolve, resolved,
                   sent, kicked, regLabel>>
    /\ UNCHANGED <<hostVars, ctxVars>>

\* rm.deferMessageFn(&DeferredMessage{...}), which may return an error.
BroadcastDefer(ok) ==
    /\ dpc = "deliver"
    /\ dcall.fn = "broadcastMessageDeferred"
    /\ deferred' = Append(deferred, [PresenceIDs |-> resolved.pids, Envelope |-> resolved.msg,
                                     Reliable |-> resolved.reliable, Accepted |-> ok])
    /\ dres' = (IF ok THEN Returned ELSE Raised(ErrDefer))
    /\ dpc' = "idle"
    /\ UNCHANGED <<coreVars, callVars, loopVars, directory, dcall, dirAtResolve, resolved,
                   sent, kicked, regLabel>>
    /\ UNCHANGED <<hostVars, ctxVars>>

\* The body of matchKick's loop: the error of one presence.
KickEntryErr(e) ==
    IF e.kind # "obj" THEN ErrPresenceSet
    ELSE IF e.user_id \in {Absent, Nil} THEN ErrNoUserID
    ELSE IF ~IsStr(e.user_id) THEN ErrUserIDString
    ELSE IF UuidFromString(e.user_id.s) = 0 THEN ErrUserIDValid
    ELSE IF e.session_id \in {Absent, Nil} THEN ErrNoSessionID
    ELSE IF ~IsStr(e.session_id) THEN ErrSessionIDString
    ELSE IF UuidFromString(e.session_id.s) = 0 THEN ErrSessionIDValid
    ELSE IF e.node_id \in {Absent, Nil} THEN ErrNoNodeID
    ELSE IF ~IsStr(e.node_id) THEN ErrNodeIDString
    ELSE ""

\* matchKick validating only the first presence of the array.
FirstKickErrHeadOnly(items) ==
    IF items = <<>> THEN "" ELSE KickEntryErr(Head(items))

RECURSIVE FirstKickErr(_)
FirstKickErr(items) ==
    IF items = <<>> THEN ""
    ELSE IF KickEntryErr(Head(items)) # "" THEN KickEntryErr(Head(items))
    ELSE FirstKickErr(Tail(items))

KickPresence(e) ==
    MatchPresence(UuidFromString(e.user_id.s), UuidFromString(e.session_id.s), "", e.node_id.s)

\* matchKick after the stopped check.
MatchKick ==
    /\ dpc = "body"
    /\ dcall.fn = "matchKick"
    /\ dpc' = "idle"
    /\ IF dcall.input.kind = "absent"
       THEN dres' = Returned /\ UNCHANGED kicked
       ELSE IF dcall.input.kind # "array"
       THEN dres' = Raised(ErrKickArray) /\ UNCHANGED kicked
       ELSE IF FirstKickErr(dcall.input.items) # ""
       THEN dres' = Raised(FirstKickErr(dcall.input.items)) /\ UNCHANGED kicked
       ELSE /\ dres' = Returned
            /\ kicked' = Append(kicked,
                    [Stream |-> stream,
                     Presences |-> [k \in 1..Len(dcall.input.items) |->
                                        KickPresence(dcall.input.items[k])]])
    /\ UNCHANGED <<coreVars, callVars, loopVars, directory, dcall, dirAtResolve, resolved,
                   sent, deferred, regLabel>>
    /\ UNCHANGED <<hostVars, ctxVars>>

\* matchLabelUpdate storing the label before it asks the registry, so that
\* the stored label stays when the registry returns an error.
MatchLabelUpdateStoresFirst(ok) ==
    /\ dpc = "body"
    /\ dcall.fn = "matchLabelUpdate"
    /\ dpc' = "idle"
    /\ IF GetJsStringErr(dcall.label) # ""
       THEN dres' = Raised(GetJsStringErr(dcall.label)) /\ UNCHANGED <<regLabel, coreVars>>
       ELSE IF ~ok
       THEN /\ dres' = Raised(ErrLabelUpdate)
            /\ label' = dcall.label.s
            /\ UNCHANGED <<regLabel, phase, ctxLabel, ctxTickRate, bound, stopped>>
       ELSE /\ dres' = Returned
            /\ regLabel' = dcall.label.s
            /\ label' = dcall.label.s
            /\ ctxLabel' = dcall.label.s
            /\ UNCHANGED <<phase, ctxTickRate, bound, stopped>>
    /\ UNCHANGED <<callVars, loopVars, directory, dcall, dirAtResolve, resolved, sent,
                   deferred, kicked>>
    /\ UNCHANGED <<hostVars, ctxVars>>

\* matchLabelUpdate without the write of the label into the context.
MatchLabelUpdateForgetsCtx(ok) ==
    /\ dpc = "body"
    /\ dcall.fn = "matchLabelUpdate"
    /\ dpc' = "idle"
    /\ IF GetJsStringErr(dcall.label) # ""
       THEN dres' = Raised(GetJsStringErr(dcall.label)) /\ UNCHANGED <<regLabel, coreVars>>
       ELSE IF ~ok
       THEN dres' = Raised(ErrLabelUpdate) /\ UNCHANGED <<regLabel, coreVars>>
       ELSE /\ dres' = Returned
            /\ regLabel' = dcall.label.s
            /\ label' = dcall.label.s
            /\ UNCHANGED <<phase, ctxLabel, ctxTickRate, bound, stopped>>
    /\ UNCHANGED <<callVars, loopVars, directory, dcall, dirAtResolve, resolved, sent,
                   deferred, kicked>>
    /\ UNCHANGED <<hostVars, ctxVars>>

\* matchLabelUpdate after the stopped check; the registry's UpdateMatchLabel
\* returns an error or stores the label.
MatchLabelUpdate(ok) ==
    /\ dpc = "body"
    /\ dcall.fn = "matchLabelUpdate"
    /\ dpc' = "idle"
    /\ IF GetJsStringErr(dcall.label) # ""
       THEN dres' = Raised(GetJsStringErr(dcall.label)) /\ UNCHANGED <<regLabel, coreVars>>
       ELSE IF ~ok
       THEN dres' = Raised(ErrLabelUpdate) /\ UNCHANGED <<regLabel, coreVars>>
       ELSE /\ dres' = Returned
            /\ regLabel' = dcall.label.s
            /\ label' = dcall.label.s
            /\ ctxLabel' = dcall.label.s
            /\ UNCHANGED <<phase, ctxTickRate, bound, stopped>>
    /\ UNCHANGED <<callVars, loopVars, directory, dcall, dirAtResolve, resolved, sent,
                   deferred, kicked>>
    /\ UNCHANGED <<hostVars, ctxVars>>

\* The handler takes the dispatcher function's result (its return value or
\* the exception) and goes on; the record of the call is closed.
DispatcherReturn ==
    /\ dpc = "idle"
    /\ dres.status \in {"returned", "raised"}
    /\ dcall' = NoCall
    /\ dres' = NoOutcome
    /\ dirAtResolve' = <<>>
    /\ resolved' = BNoop
    /\ sent' = <<>>
    /\ deferred' = <<>>
    /\ kicked' = <<>>
    /\ UNCHANGED <<coreVars, callVars, loopVars, directory, dpc, regLabel>>
    /\ UNCHANGED <<hostVars, ctxVars>>

\* The scheduler sets the stopped flag.
SetStopped ==
    /\ phase = "running"
    /\ ~stopped
    /\ stopped' = TRUE
    /\ UNCHANGED <<phase, label, ctxLabel, ctxTickRate, bound, callVars, loopVars, dispVars>>
    /\ UNCHANGED <<hostVars, ctxVars>>

\* The registry adds an admitted participant to the presence list.
DirectoryAdd(p) ==
    /\ phase = "running"
    /\ ~Contains(directory, PresenceID(p.SessionID, p.Node))
    /\ directory' = Append(directory, p)
    /\ UNCHANGED <<coreVars, callVars, loopVars, dpc, dcall, dres, dirAtResolve, resolved,
                   sent, deferred, kicked, regLabel>>
    /\ UNCHANGED <<hostVars, ctxVars>>

\* The registry removes a departed participant from the presence list.
DirectoryRemove(p) ==
    /\ phase = "running"
    /\ Contains(directory, PresenceID(p.SessionID, p.Node))
    /\ directory' = SelectSeq(directory, LAMBDA q : q # p)
    /\ UNCHANGED <<coreVars, callVars, loopVars, dpc, dcall, dres, dirAtResolve, resolved,
                   sent, deferred, kicked, regLabel>>
    /\ UNCHANGED <<hostVars, ctxVars>>

(***************************************************************************)
(* httpRequest of the nakama module                                        *)
(***************************************************************************)
MaxHttpCalls == 2

ErrHttpURL == "URL string cannot be empty."
ErrHttpMethod == "Invalid method must be one of: 'get', 'post', 'put', 'patch'."
ErrHttpInvalid == "HTTP request is invalid"
ErrHttpRequest == "HTTP request error"

\* strings.ToUpper on the method names a handler passes.
ToUpper(str) ==
    CASE str \in {"get", "Get", "GET"} -> "GET"
      [] str \in {"post", "POST"} -> "POST"
      [] str \in {"put", "PUT"} -> "PUT"
      [] str \in {"patch", "PATCH"} -> "PATCH"
      [] str \in {"delete", "DELETE"} -> "DELETE"
      [] OTHER -> str
HttpMethods == {"GET", "POST", "PUT", "PATCH"}

\* http.NewRequest accepts the URL: it parses.
UrlParses(url) == url \notin {"", ":bad"}

\* goja's ToInteger on the timeout argument: null gives 0.
ToInteger(v) == IF IsInt(v) THEN v.n ELSE 0

\* if timeoutArg != goja.Undefined() { n.httpClient.Timeout = ... }
HttpTimeoutAfter(cur, arg) == IF arg # Absent THEN ToInteger(arg) ELSE cur

\* One httpRequest call and what became of it: the error it raised ("" for
\* none), whether a request went out and the client timeout it went out
\* under.
HttpCall(url, method, timeoutArg, requested, timeout, err) ==
    [url |-> url, method |-> method, timeoutArg |-> timeoutArg, requested |-> requested,
     timeout |-> timeout, err |-> err]

\* What httpRequest does with its arguments once the client's timeout is
\* cur; netOk is whether n.httpClient.Do returns a response.
HttpOutcome(url, method, arg, cur, netOk) ==
    IF url = "" THEN HttpCall(url, method, arg, FALSE, 0, ErrHttpURL)
    ELSE IF ToUpper(method) \notin HttpMethods
         THEN HttpCall(url, method, arg, FALSE, 0, ErrHttpMethod)
    ELSE IF ~UrlParses(url) THEN HttpCall(url, method, arg, FALSE, 0, ErrHttpInvalid)
    ELSE HttpCall(url, method, arg, TRUE, cur, IF netOk THEN "" ELSE ErrHttpRequest)

HttpUrls == {"", "http://h", ":bad"}
HttpMethodArgs == {"get", "POST", "delete"}
HttpTimeoutArgs == {Absent, Nil, JsInt(100), JsInt(2000)}

\* A handler calls httpRequest.
HttpRequest(url, method, arg, netOk) ==
    /\ Len(httpLog) < MaxHttpCalls
    /\ httpTimeout' = HttpTimeoutAfter(httpTimeout, arg)
    /\ httpLog' = Append(httpLog, HttpOutcome(url, method, arg, httpTimeout', netOk))
    /\ UNCHANGED <<coreVars, callVars, loopVars, dispVars, ctxVars>>

(***************************************************************************)
(* The lifecycle specification: the scheduler calls MatchInit once and,    *)
(* when it succeeded, the membership calls.                                *)
(***************************************************************************)
IdleLoop ==
    /\ inputCh = <<>>
    /\ nextMsg = 1
    /\ loopPc = "idle"
    /\ size = 0
    /\ loopI = 1
    /\ inputs = <<>>
    /\ snapNext = 1
    /\ consumed = 0

\* The nakama module as constructed: the HTTP client's timeout is 5s.
DefaultHttpTimeout == 5000
IdleHost ==
    /\ httpTimeout = DefaultHttpTimeout
    /\ httpLog = <<>>

\* rm.ctx as constructed: no caller identity; no handler was called yet.
FreshContext ==
    /\ ctxCaller = NoIdentity
    /\ passedCtx = Context("", 0, NoIdentity)

IdleDispatcher ==
    /\ directory = <<>>
    /\ dpc = "idle"
    /\ dcall = NoCall
    /\ dres = NoOutcome
    /\ dirAtResolve = <<>>
    /\ resolved = BNoop
    /\ sent = <<>>
    /\ deferred = <<>>
    /\ kicked = <<>>
    /\ regLabel = ""

InitCore ==
    /\ phase = "uninit"
    /\ label = ""
    /\ ctxLabel = ""
    /\ ctxTickRate = 0
    /\ bound = FALSE
    /\ stopped = FALSE
    /\ handlerRet = NoRet
    /\ result = NoResult
    /\ IdleLoop
    /\ IdleDispatcher
    /\ FreshContext
    /\ IdleHost

NextLifecycle ==
    \/ \E r \in InitReturns : MatchInit(r)
    \/ \E r \in JoinAttemptReturns : MatchJoinAttempt(r)

SpecLifecycle == InitCore /\ [][NextLifecycle]_vars

(***************************************************************************)
(* The tick specification: a match that MatchInit has started, its inbound *)
(* channel fed by producers while the tick thread runs MatchLoop.          *)
(***************************************************************************)
\* The state MatchInit leaves for {state: s1, tick_rate: 10, label: "arena-1"}.
Started ==
    /\ phase = "running"
    /\ label = ""
    /\ ctxLabel = "arena-1"
    /\ ctxTickRate = 10
    /\ bound = TRUE
    /\ stopped = FALSE
    /\ handlerRet = HandlerRet("obj", JsInt(10), JsStr("arena-1"), JsState("s1"), Absent, Absent)
    /\ result = CallResult("init", JsState("s1"), 10, FALSE, "", "")

InitLoop ==
    /\ Started
    /\ IdleLoop
    /\ IdleDispatcher
    /\ FreshContext
    /\ IdleHost

NextLoop ==
    \/ Enqueue
    \/ LoopBegin
    \/ LoopReceive
    \/ LoopInvoke
    \/ \E r \in LoopReturns : LoopReturn(r)

SpecLoop == InitLoop /\ [][NextLoop]_vars

\* The tick thread is scheduled: a step of the drain loop or the call of
\* the handler that stays possible is taken.  Nothing is assumed of the
\* producers.
SpecLoopFair == SpecLoop /\ WF_vars(LoopReceive) /\ WF_vars(LoopInvoke)

(***************************************************************************)
(* The dispatcher specification: a started match whose handler calls the   *)
(* dispatcher functions while the registry changes the presence list and   *)
(* the scheduler may set the stopped flag.                                 *)
(***************************************************************************)
SeqsUpTo(S, n) == UNION {[1..k -> S] : k \in 0..n}

EntryA == Entry("obj", JsStr("a1"), JsStr("u1"), JsStr("n1"))
EntryB == Entry("obj", JsStr("a2"), JsStr("u1"), JsStr("n2"))
EntryC == Entry("obj", JsStr("a1"), JsStr("u2"), JsStr("n1"))
EntryAUpper == Entry("obj", JsStr("a1"), JsStr("U1"), JsStr("n1"))
FilterAlphabet == {EntryA, EntryB, EntryC, EntryAUpper}
OtherMalformed ==
    {Entry("nonobj", Absent, Absent, Absent),
     Entry("obj", JsStr("a1"), JsStr("zz"), JsStr("n1")),
     Entry("obj", JsStr("a1"), Absent, JsStr("n1")),
     Entry("obj", JsStr("a1"), JsInt(1), JsStr("n1")),
     Entry("obj", JsStr("a1"), JsStr("u1"), Absent),
     Entry("obj", JsStr("a1"), JsStr("u1"), JsInt(1)),
     Entry("obj", Absent, JsStr("u1"), JsStr("n1")),
     Entry("obj", JsStr("zz"), JsStr("u1"), JsStr("n1"))}

Filters ==
    {AbsentArray, NonArray}
    \cup {ArrayArg("array", f) : f \in SeqsUpTo(FilterAlphabet, MaxFilter)}
    \cup {ArrayArg("array", <<m>>) : m \in OtherMalformed}
    \cup {ArrayArg("array", <<EntryA, m>>) : m \in OtherMalformed}
FewFilters ==
    {AbsentArray, ArrayArg("array", <<>>), ArrayArg("array", <<EntryA>>),
     ArrayArg("array", <<EntryC, EntryA>>)}

OpCodes == {JsInt(7), JsStr("7")}
DataValues == {Absent, JsStr("ping"), JsInt(5)}
GoodSender == Sender("obj", JsStr("a1"), JsStr("u1"), JsStr("alice"))
Senders ==
    {AbsentSender, GoodSender,
     Sender("nonobj", Absent, Absent, Absent),
     Sender("obj", JsStr("zz"), JsStr("u1"), JsStr("alice")),
     Sender("obj", JsStr("a1"), JsStr("u1"), Absent),
     Sender("obj", JsStr("a1"), JsStr("u1"), JsInt(9))}
ReliableValues == {Absent, JsBool(TRUE), JsBool(FALSE), JsStr("yes")}

BroadcastCalls ==
    {DCall(fn, JsInt(7), JsStr("ping"), f, AbsentSender, Absent, AbsentArray, Absent) :
        fn \in BroadcastFns, f \in Filters}
    \cup {DCall(fn, op, JsStr("ping"), f, AbsentSender, Absent, AbsentArray, Absent) :
        fn \in BroadcastFns, op \in OpCodes, f \in FewFilters}
    \cup {DCall(fn, JsInt(7), d, f, AbsentSender, Absent, AbsentArray, Absent) :
        fn \in BroadcastFns, d \in DataValues, f \in FewFilters}
    \cup {DCall(fn, JsInt(7), JsStr("ping"), f, sd, rl, AbsentArray, Absent) :
        fn \in BroadcastFns, f \in FewFilters, sd \in Senders, rl \in ReliableValues}
KickCalls ==
    {DCall("matchKick", Absent, Absent, AbsentArray, AbsentSender, Absent, i, Absent) :
        i \in {AbsentArray, NonArray, ArrayArg("array", <<>>), ArrayArg("array", <<EntryA>>),
               ArrayArg("array", <<EntryC, EntryA>>)}
              \cup {ArrayArg("array", <<EntryA, m>>) : m \in OtherMalformed}}
LabelCalls ==
    {DCall("matchLabelUpdate", Absent, Absent, AbsentArray, AbsentSender, Absent, AbsentArray, l) :
        l \in {JsStr("arena-2"), JsInt(3)}}
DispatcherCalls == BroadcastCalls \cup KickCalls \cup LabelCalls

InitDispatch ==
    /\ Started
    /\ IdleLoop
    /\ IdleDispatcher
    /\ FreshContext
    /\ IdleHost

\* No dispatcher call is in progress or waits for the handler to take its result.
Quiescent == dpc = "idle" /\ dres = NoOutcome

\* The handler's calls with every input; the presence list and the stopped
\* flag change between the calls.
NextDispatch ==
    \/ \E c \in DispatcherCalls : DispatcherEnter(c)
    \/ DispatcherReturn
    \/ BroadcastValidate
    \/ BroadcastSend
    \/ \E ok \in BOOLEAN : BroadcastDefer(ok)
    \/ MatchKick
    \/ \E ok \in BOOLEAN : MatchLabelUpdate(ok)
    \/ Quiescent /\ SetStopped
    \/ Quiescent /\ \E p \in Members : DirectoryAdd(p)
    \/ Quiescent /\ \E p \in Members : DirectoryRemove(p)

SpecDispatch == InitDispatch /\ [][NextDispatch]_vars

(***************************************************************************)
(* The concurrent specification: the registry and the scheduler run on     *)
(* other threads than the handler, so the presence list and the stopped    *)
(* flag change at any point of a broadcast.                                *)
(***************************************************************************)
ConcurrentCalls ==
    {DCall(fn, JsInt(7), JsStr("ping"), f, AbsentSender, Absent, AbsentArray, Absent) :
        fn \in BroadcastFns, f \in FewFilters}

NextConcurrent ==
    \/ \E c \in ConcurrentCalls : DispatcherEnter(c)
    \/ DispatcherReturn
    \/ BroadcastValidate
    \/ BroadcastSend
    \/ \E ok \in BOOLEAN : BroadcastDefer(ok)
    \/ SetStopped
    \/ \E p \in Members : DirectoryAdd(p)
    \/ \E p \in Members : DirectoryRemove(p)

SpecConcurrent == InitDispatch /\ [][NextConcurrent]_vars

(***************************************************************************)
(* The match specification: the whole life of one match.  The scheduler    *)
(* thread makes one lifecycle call at a time; a handler calls dispatcher   *)
(* functions while it runs; producers feed the inbound channel; the        *)
(* registry changes the presence list and the scheduler may set the        *)
(* stopped flag between two dispatcher calls.  After MatchTerminate the    *)
(* scheduler stops the match, and handler code that is still running may   *)
(* go on calling the dispatcher.                                           *)
(***************************************************************************)
MatchMsgs == 1

MatchInitReturns ==
    {Threw,
     HandlerRet("obj", JsInt(10), JsStr("arena-1"), JsState("s1"), Absent, Absent),
     HandlerRet("obj", JsInt(10), Absent, JsState("s1"), Absent, Absent)}
MatchJoinAttemptReturns ==
    {Threw, NullRet,
     HandlerRet("obj", Absent, Absent, JsState("s1"), JsBool(TRUE), Absent),
     HandlerRet("obj", Absent, Absent, JsState("s2"), JsBool(FALSE), JsStr("full")),
     HandlerRet("obj", Absent, Absent, Absent, JsBool(TRUE), Absent),
     HandlerRet("obj", Absent, Absent, JsState("s1"), JsInt(1), Absent)}
MatchCalls ==
    {DCall(fn, JsInt(7), JsStr("ping"), f, AbsentSender, Absent, AbsentArray, Absent) :
        fn \in BroadcastFns, f \in {AbsentArray, ArrayArg("array", <<EntryB, EntryA>>)}}
    \cup {DCall("matchKick", Absent, Absent, AbsentArray, AbsentSender, Absent,
                ArrayArg("array", <<EntryA>>), Absent)}
    \cup LabelCalls
MatchMembers == {MemberA, MemberB}

\* The scheduler thread is between two lifecycle calls.
SchedulerFree == loopPc = "idle" /\ Quiescent

NextMatch ==
    \/ \E r \in MatchInitReturns : MatchInit(r)
    \/ SchedulerFree /\ \E r \in MatchJoinAttemptReturns : MatchJoinAttempt(r)
    \/ SchedulerFree /\ \E r \in StateReturns : MatchJoin(r)
    \/ SchedulerFree /\ \E r \in StateReturns : MatchLeave(r)
    \/ SchedulerFree /\ \E r \in StateReturns : MatchTerminate(r)
    \/ SchedulerStop
    \/ nextMsg <= MatchMsgs /\ Enqueue
    \/ Quiescent /\ LoopBegin
    \/ LoopReceive
    \/ LoopInvoke
    \/ Quiescent /\ \E r \in LoopReturns : LoopReturn(r)
    \/ loopPc # "drain" /\ \E c \in MatchCalls : DispatcherEnter(c)
    \/ DispatcherReturn
    \/ BroadcastValidate
    \/ BroadcastSend
    \/ \E ok \in BOOLEAN : BroadcastDefer(ok)
    \/ MatchKick
    \/ \E ok \in BOOLEAN : MatchLabelUpdate(ok)
    \/ Quiescent /\ SetStopped
    \/ Quiescent /\ \E p \in MatchMembers : DirectoryAdd(p)
    \/ Quiescent /\ \E p \in MatchMembers : DirectoryRemove(p)

SpecMatch == InitCore /\ [][NextMatch]_vars

(***************************************************************************)
(* The host-function specification: handlers call httpRequest on the one   *)
(* nakama module, and so on its one HTTP client.                           *)
(***************************************************************************)
NextHttp ==
    \E url \in HttpUrls, method \in HttpMethodArgs, arg \in HttpTimeoutArgs, netOk \in BOOLEAN :
        HttpRequest(url, method, arg, netOk)

SpecHttp == InitCore /\ [][NextHttp]_vars

(***************************************************************************)
(* Properties of the broadcast functions                                   *)
(***************************************************************************)
Range(sq) == {sq[k] : k \in 1..Len(sq)}
IsBroadcast == dcall.fn \in BroadcastFns
MemberIDs(dir) == {PresenceID(p.SessionID, p.Node) : p \in Range(dir)}

WellFormedEntry(e) ==
    /\ e.kind = "obj"
    /\ IsStr(e.session_id) /\ e.session_id.s \in {"u1", "U1", "u2", "U2"}
    /\ IsStr(e.node_id)
WellFormedFilter(f) ==
    f.kind = "array" /\ \A k \in 1..Len(f.items) : WellFormedEntry(f.items[k])
\* The id a well-formed filter entry names.
NamedID(e) ==
    PresenceID(IF e.session_id.s \in {"u1", "U1"} THEN 1 ELSE 2, e.node_id.s)
WellFormedSender(sd) ==
    \/ sd.kind = "absent"
    \/ /\ sd.kind = "obj"
       /\ IsStr(sd.user_id) /\ sd.user_id.s \in {"a1", "a2"}
       /\ IsStr(sd.session_id) /\ sd.session_id.s \in {"u1", "u2"}
       /\ IsStr(sd.username)
WellFormedBroadcast(c) ==
    /\ IsInt(c.opCode)
    /\ c.data \in {Absent, Nil} \/ IsStr(c.data)
    /\ c.filter.kind = "absent" \/ WellFormedFilter(c.filter)
    /\ WellFormedSender(c.sender)
    /\ c.reliable \in {Absent, Nil} \/ IsBool(c.reliable)

\* The recipient lists the call in progress has resolved or handed on.
HandedOn ==
    {resolved.pids}
    \cup {sent[k].PresenceIDs : k \in 1..Len(sent)}
    \cup {deferred[k].PresenceIDs : k \in 1..Len(deferred)}

\* validateBroadcast has returned to the broadcast function without a panic.
Resolved ==
    /\ IsBroadcast
    /\ \/ dpc = "deliver"
       \/ dres = Returned
       \/ dres = Raised(ErrDefer)

\* C1: for a broadcast with a non-empty filter, every presence id handed to
\* the router or to the defer function is the (SessionID, Node) of a member
\* of the presence list as validateBroadcast read it, and is named by the
\* filter; a filter entry that is not a member is no recipient and raises
\* no error: a call whose arguments are well formed raises nothing but
\* 'match stopped' or the defer function's error.
C1_RecipientsAreMembers ==
    (IsBroadcast /\ dcall.filter.kind = "array" /\ Len(dcall.filter.items) >= 1) =>
        /\ \A R \in HandedOn : \A k \in 1..Len(R) :
              /\ R[k] \in MemberIDs(dirAtResolve)
              /\ WellFormedFilter(dcall.filter) =>
                    \E h \in 1..Len(dcall.filter.items) : R[k] = NamedID(dcall.filter.items[h])
        /\ (WellFormedBroadcast(dcall) /\ dres.status = "raised") =>
              dres.err \in {ErrMatchStopped, ErrDefer}

\* A filter naming a non-member and a member reaches the router with the
\* member only.
C1_Witness ==
    /\ dcall.fn = "broadcastMessage"
    /\ dcall.filter.items = <<EntryB, EntryA>>
    /\ dirAtResolve = <<MemberC, MemberA>>
    /\ dres = Returned
    /\ Len(sent) = 1
    /\ sent[1].PresenceIDs = <<PresenceID(1, "n1")>>

\* C2: a dispatcher function invoked while the stopped flag is set fails
\* with 'match stopped' and changes nothing: no send, no deferred message,
\* no Kick, no label update at the registry, Label() and the context label
\* as before.
C2_StoppedCallHasNoEffect ==
    [][ (stopped /\ Quiescent /\ dcall' # NoCall) =>
            /\ dres' = Raised(ErrMatchStopped)
            /\ dpc' = "idle"
            /\ UNCHANGED <<sent, deferred, kicked, regLabel, label, ctxLabel, resolved,
                           directory>> ]_vars

C2_Witness ==
    /\ stopped
    /\ dcall.fn = "matchLabelUpdate"
    /\ dcall.label = JsStr("arena-2")
    /\ dres = Raised(ErrMatchStopped)
    /\ regLabel = ""
    /\ ctxLabel = "arena-1"

\* C6: with an empty filter the resolution is a no-op whatever the presence
\* list holds (and whatever the sender and reliable arguments are): no send
\* and no defer, and no error but those of the stopped flag, the op code
\* and the data, which are looked at before the filter.
C6_EmptyFilterIsNoop ==
    (IsBroadcast /\ dcall.filter = ArrayArg("array", <<>>)) =>
        /\ sent = <<>>
        /\ deferred = <<>>
        /\ dpc # "deliver"
        /\ resolved = BNoop
        /\ dres.status = "raised" => dres.err \in {ErrMatchStopped, ErrExpectsNumber, ErrData}
        /\ (dpc = "idle" /\ IsInt(dcall.opCode) /\ ~stopped
              /\ (dcall.data \in {Absent, Nil} \/ IsStr(dcall.data))) => dres = Returned

C6_Witness ==
    /\ dcall.fn = "broadcastMessageDeferred"
    /\ dcall.filter = ArrayArg("array", <<>>)
    /\ dcall.sender.kind = "nonobj"
    /\ Len(directory) = 3
    /\ dres = Returned
    /\ deferred = <<>>

\* C7: of a non-empty well-formed filter, every entry that names a member
\* of the presence list is among the resolved recipients, and among the
\* recipients of the send or the deferred message.
C7_MembersAreKept ==
    (Resolved /\ WellFormedFilter(dcall.filter) /\ Len(dcall.filter.items) >= 1) =>
        \A h \in 1..Len(dcall.filter.items) :
            NamedID(dcall.filter.items[h]) \in MemberIDs(dirAtResolve) =>
                /\ NamedID(dcall.filter.items[h]) \in Range(resolved.pids)
                /\ (dpc = "idle" /\ dcall.fn = "broadcastMessage") =>
                      /\ Len(sent) = 1
                      /\ NamedID(dcall.filter.items[h]) \in Range(sent[1].PresenceIDs)
                /\ (dpc = "idle" /\ dcall.fn = "broadcastMessageDeferred") =>
                      /\ Len(deferred) = 1
                      /\ NamedID(dcall.filter.items[h]) \in Range(deferred[1].PresenceIDs)

\* A non-member first and two members after it: both members are sent to.
C7_Witness ==
    /\ dcall.fn = "broadcastMessage"
    /\ dcall.filter.items = <<EntryB, EntryAUpper, EntryC>>
    /\ dirAtResolve = <<MemberA, MemberC>>
    /\ dres = Returned
    /\ Range(sent[1].PresenceIDs) = {PresenceID(1, "n1"), PresenceID(2, "n1")}

\* C8: with an absent filter the recipients are the full listing of the
\* presence list as it was when validateBroadcast read it, and what is
\* handed to the router or the defer function is that listing whatever
\* was added to or removed from the presence list since.
C8_AbsentFilterIsSnapshot ==
    (IsBroadcast /\ dcall.filter.kind = "absent") =>
        /\ \A R \in HandedOn \ {<<>>} :
              R = [k \in 1..Len(dirAtResolve) |->
                      PresenceID(dirAtResolve[k].SessionID, dirAtResolve[k].Node)]
        /\ (Resolved /\ dirAtResolve # <<>>) =>
              /\ Len(resolved.pids) = Len(dirAtResolve)
              /\ dpc = "idle" => Len(sent) + Len(deferred) = 1

\* A deferred message holds the two members listed at resolution although
\* one of them has left since.
C8_Witness ==
    /\ dcall.fn = "broadcastMessageDeferred"
    /\ dcall.filter.kind = "absent"
    /\ dirAtResolve = <<MemberA, MemberB>>
    /\ directory = <<MemberB>>
    /\ Len(deferred) = 1
    /\ deferred[1].PresenceIDs = <<PresenceID(1, "n1"), PresenceID(1, "n2")>>

\* C12: when a broadcast builds its envelope, a supplied sender has a user
\* id, a session id and a username that are each present and a string, and
\* the envelope's sender carries exactly those three values; when no sender
\* is supplied the envelope's sender is empty.
C12_SenderCarried ==
    (Resolved /\ resolved.msg.set) =>
        IF dcall.sender.kind = "absent"
        THEN resolved.msg.Presence = NoUserPresence
        ELSE /\ IsStr(dcall.sender.user_id)
             /\ IsStr(dcall.sender.session_id)
             /\ IsStr(dcall.sender.username)
             /\ resolved.msg.Presence =
                    UserPresence(TRUE, dcall.sender.user_id.s, dcall.sender.session_id.s,
                                 dcall.sender.username.s)

\* The members of the presence list dir that the well-formed filter f names.
NamedMembers(f, dir) ==
    {NamedID(f.items[k]) : k \in 1..Len(f.items)} \cap MemberIDs(dir)

\* C13: a broadcastMessage call with well-formed arguments, no sender and a
\* filter that names exactly one member of the presence list makes
\* exactly one SendToPresenceIDs call and no deferral; the recipients are
\* that one member, the envelope carries the given op code and payload and
\* no sender, and the reliable flag, TRUE when the argument is left out and
\* the argument's value otherwise, is the same in the envelope and in the
\* router argument.
C13_OneMemberOneSend ==
    (/\ dcall.fn = "broadcastMessage"
     /\ dpc = "idle"
     /\ WellFormedBroadcast(dcall)
     /\ dcall.sender.kind = "absent"
     /\ dcall.filter.kind = "array"
     /\ Cardinality(NamedMembers(dcall.filter, dirAtResolve)) = 1) =>
        LET rel == IF dcall.reliable \in {Absent, Nil} THEN TRUE
                   ELSE dcall.reliable = JsBool(TRUE)
        IN  /\ dres = Returned
            /\ deferred = <<>>
            /\ Len(sent) = 1
            /\ Len(sent[1].PresenceIDs) = 1
            /\ sent[1].PresenceIDs[1] \in NamedMembers(dcall.filter, dirAtResolve)
            /\ sent[1].Envelope =
                   Envelope(TRUE, idStr, NoUserPresence, dcall.opCode.n,
                            IF dcall.data = Absent THEN Nil ELSE dcall.data, rel)
            /\ sent[1].Reliable = rel

\* One member is sent an unreliable message: the argument FALSE is in the
\* envelope and in the router argument.
C13_Witness ==
    /\ dcall.fn = "broadcastMessage"
    /\ dcall.filter = ArrayArg("array", <<EntryA>>)
    /\ dcall.sender = AbsentSender
    /\ dcall.reliable = JsBool(FALSE)
    /\ dirAtResolve = <<MemberB, MemberA>>
    /\ dres = Returned
    /\ Len(sent) = 1
    /\ sent[1].PresenceIDs = <<PresenceID(1, "n1")>>
    /\ sent[1].Reliable = FALSE
    /\ sent[1].Envelope.Reliable = FALSE

\* The filter has an entry that is not an object, or whose session_id or
\* node_id is missing or not a string, or whose session_id is no valid id.
HasMalformedEntry(f) ==
    f.kind = "array" /\ \E k \in 1..Len(f.items) : ~WellFormedEntry(f.items[k])
\* A sender is supplied and is not an object with a valid user id, a valid
\* session id and a username that are each a string.
MalformedSender(sd) == sd.kind # "absent" /\ ~WellFormedSender(sd)

\* C21: a broadcast call whose filter has a malformed entry, or whose
\* supplied sender is malformed, never reaches delivery and never returns
\* normally: it raises an error, and nothing is sent and nothing deferred,
\* whatever well-formed entries precede the malformed one.
C21_MalformedAborts ==
    (IsBroadcast /\ (HasMalformedEntry(dcall.filter) \/ MalformedSender(dcall.sender))) =>
        /\ dpc # "deliver"
        /\ dres # Returned
        /\ sent = <<>>
        /\ deferred = <<>>

\* C23: a broadcast function delivers in its own way, once.  When the call
\* has ended and validateBroadcast had resolved recipients, broadcastMessage
\* has called SendToPresenceIDs exactly once, with the resolved recipients,
\* envelope and reliable flag, and never the defer function, and
\* broadcastMessageDeferred has called the defer function exactly once with
\* a DeferredMessage of the same three and never SendToPresenceIDs, the
\* call raising the defer function's error when that returned one; when no
\* recipients were resolved, or the call raised before delivery, neither
\* was called.  At no time has a call made more than one delivery.
C23_DeliveryExclusive ==
    IsBroadcast =>
        /\ Len(sent) + Len(deferred) <= 1
        /\ dcall.fn = "broadcastMessage" => deferred = <<>>
        /\ dcall.fn = "broadcastMessageDeferred" => sent = <<>>
        /\ (dpc = "idle" /\ Len(resolved.pids) = 0) => (sent = <<>> /\ deferred = <<>>)
        /\ (dpc = "idle" /\ Len(resolved.pids) # 0) =>
              IF dcall.fn = "broadcastMessage"
              THEN /\ dres = Returned
                   /\ sent = <<[PresenceIDs |-> resolved.pids, Envelope |-> resolved.msg,
                                Reliable |-> resolved.reliable]>>
              ELSE /\ Len(deferred) = 1
                   /\ deferred[1].PresenceIDs = resolved.pids
                   /\ deferred[1].Envelope = resolved.msg
                   /\ deferred[1].Reliable = resolved.reliable
                   /\ dres = (IF deferred[1].Accepted THEN Returned ELSE Raised(ErrDefer))

\* A deferred broadcast to two members was handed to the defer function,
\* which returned an error, and the call raised it; the router was not
\* called.
C23_Witness ==
    /\ dcall.fn = "broadcastMessageDeferred"
    /\ dpc = "idle"
    /\ Len(resolved.pids) = 2
    /\ Len(deferred) = 1
    /\ ~deferred[1].Accepted
    /\ dres = Raised(ErrDefer)
    /\ sent = <<>>

\* No two places of the sequence hold the same value.
NoDuplicates(sq) == \A i, j \in 1..Len(sq) : i # j => sq[i] # sq[j]

\* C26: when no two entries of the presence list share (SessionID, Node),
\* the recipients resolved from a filter of two or more entries, and those
\* handed to the router or the defer function, hold no (SessionID, Node)
\* twice, also when the filter names one member several times.
C26_NoDuplicateRecipients ==
    (/\ IsBroadcast
     /\ dcall.filter.kind = "array"
     /\ Len(dcall.filter.items) >= 2
     /\ NoDuplicates(ListPresenceIDs(dirAtResolve))) =>
        \A R \in HandedOn : NoDuplicates(R)

\* A filter that names member A three times, once in another spelling of
\* its session id, resolved against a list that holds C and A: A is sent
\* to once.
C26_Witness ==
    /\ dcall.fn = "broadcastMessage"
    /\ dcall.filter.items = <<EntryA, EntryAUpper, EntryA>>
    /\ dirAtResolve = <<MemberC, MemberA>>
    /\ dres = Returned
    /\ Len(sent) = 1
    /\ sent[1].PresenceIDs = <<PresenceID(1, "n1")>>

(***************************************************************************)
(* Properties of matchKick                                                 *)
(***************************************************************************)
WellFormedKickEntry(e) ==
    /\ WellFormedEntry(e)
    /\ IsStr(e.user_id) /\ e.user_id.s \in {"a1", "a2"}
\* The presence matchKick hands to the registry for a well-formed entry.
KickedPresence(e) ==
    MatchPresence(IF e.user_id.s = "a1" THEN 11 ELSE 12, NamedID(e).SessionID, "",
                  e.node_id.s)

\* C24: a matchKick call on a match that is not stopped calls the registry's
\* Kick at most once.  When the call has ended: with a null or undefined
\* argument it has returned without a Kick; with an argument that is not
\* an array, or an array with a malformed presence anywhere in it, it has
\* raised an error without a Kick; otherwise it has returned after one
\* Kick, on the match's stream, of the given presences in the given order,
\* members of the presence list or not.
C24_KickOnceOrNever ==
    (dcall.fn = "matchKick" /\ dres # Raised(ErrMatchStopped)) =>
        /\ Len(kicked) <= 1
        /\ dpc = "body" => kicked = <<>>
        /\ dpc = "idle" =>
              IF dcall.input.kind = "absent"
              THEN dres = Returned /\ kicked = <<>>
              ELSE IF \/ dcall.input.kind # "array"
                      \/ \E k \in 1..Len(dcall.input.items) :
                            ~WellFormedKickEntry(dcall.input.items[k])
              THEN dres.status = "raised" /\ kicked = <<>>
              ELSE /\ dres = Returned
                   /\ kicked = <<[Stream |-> stream,
                                  Presences |-> [k \in 1..Len(dcall.input.items) |->
                                                    KickedPresence(dcall.input.items[k])]]>>

\* Two presences, neither a member of the presence list, were kicked in one
\* Kick call in the order given.
C24_Witness ==
    /\ dcall.fn = "matchKick"
    /\ dcall.input = ArrayArg("array", <<EntryC, EntryA>>)
    /\ directory = <<MemberB>>
    /\ dres = Returned
    /\ Len(kicked) = 1
    /\ kicked[1].Presences = <<MatchPresence(11, 2, "", "n1"), MatchPresence(11, 1, "", "n1")>>

(***************************************************************************)
(* Properties of httpRequest                                               *)
(***************************************************************************)
\* C22: every request that goes out has a non-empty URL and a method that
\* is, in upper case, one of GET, POST, PUT, PATCH; it goes out under the
\* timeout its own call supplied, and under the default of 5 seconds when
\* its call supplied none, whatever earlier calls supplied and whether or
\* not they passed validation.
C22_TimeoutPerCall ==
    \A k \in 1..Len(httpLog) :
        httpLog[k].requested =>
            /\ httpLog[k].url # ""
            /\ ToUpper(httpLog[k].method) \in HttpMethods
            /\ IsInt(httpLog[k].timeoutArg) => httpLog[k].timeout = httpLog[k].timeoutArg.n
            /\ httpLog[k].timeoutArg = Absent => httpLog[k].timeout = DefaultHttpTimeout

(***************************************************************************)
(* Properties of the label                                                 *)
(***************************************************************************)
\* The step is matchLabelUpdate's body, which ends the call.
LabelUpdateStep == dcall.fn = "matchLabelUpdate" /\ dpc = "body" /\ dpc' = "idle"
\* The step is matchLabelUpdate's body returning without an error.
LabelUpdateSucceeds ==
    dcall.fn = "matchLabelUpdate" /\ dpc = "body" /\ dres' = Returned

\* C14: the value Label() returns changes only in a step in which
\* matchLabelUpdate succeeds: MatchInit, MatchJoinAttempt, MatchJoin,
\* MatchLeave, MatchLoop, MatchTerminate, the broadcast functions, matchKick
\* and a matchLabelUpdate that raises leave it as it was, so two reads of
\* Label() with no successful update between them return the same value.
C14_LabelStable == [][Label' # Label => LabelUpdateSucceeds]_vars

\* The label an update stored is still what Label() returns after a
\* MatchLoop call that consumed a message, a later update that the registry
\* refused, and MatchTerminate.
C14_Witness ==
    /\ Label = "arena-2"
    /\ consumed = 1
    /\ result.op = "terminate"
    /\ phase = "stopped"
    /\ dcall.fn = "broadcastMessage"
    /\ dres = Raised(ErrMatchStopped)

\* C15: a matchLabelUpdate(L) that returns has made the registry's label,
\* the value Label() returns and the context's label all L, and a
\* matchLabelUpdate that does not return raises an error and leaves Label()
\* and the context's label as they were; after MatchInit no other step
\* changes any of the three, so they stay L over every later lifecycle call
\* until the next update.
C15_LabelUpdate ==
    [][/\ LabelUpdateStep =>
              IF dres' = Returned
              THEN /\ IsStr(dcall.label)
                   /\ regLabel' = dcall.label.s
                   /\ Label' = dcall.label.s
                   /\ ctxLabel' = dcall.label.s
              ELSE /\ dres'.status = "raised"
                   /\ Label' = Label
                   /\ ctxLabel' = ctxLabel
       /\ (phase # "uninit" /\ ~LabelUpdateStep) =>
              UNCHANGED <<label, ctxLabel, regLabel>>
      ]_vars

\* The label "arena-2" of a successful update is in the registry, in Label()
\* and in the context after a later MatchJoin call and a later update that
\* the registry refused.
C15_Witness ==
    /\ regLabel = "arena-2"
    /\ Label = "arena-2"
    /\ ctxLabel = "arena-2"
    /\ result.op = "join"
    /\ dcall.fn = "matchLabelUpdate"
    /\ dres = Raised(ErrLabelUpdate)

DeliveryStep ==
    \/ ~resolved.msg.set /\ resolved'.msg.set
    \/ Len(sent') > Len(sent)
    \/ Len(deferred') > Len(deferred)

\* C17 as claimed: with the scheduler setting the stopped flag on another
\* thread, no step taken while the flag is set builds an envelope, calls
\* SendToPresenceIDs or calls the defer function.
C17_NoDeliveryWhileStopped == [][stopped => ~DeliveryStep]_vars

\* C17 as the code has it: the flag is read once, when the function is
\* entered.  A broadcast function entered while the flag is set raises
\* 'match stopped' and goes no further, so it builds, sends and defers
\* nothing, whatever the other thread does; a delivery is made only by a
\* call that read the flag as clear.
C17_StoppedAtEntryIsFinal ==
    [][/\ (stopped /\ dpc = "idle") => (dpc' = "idle" /\ ~DeliveryStep)
       /\ DeliveryStep => (dpc \in {"body", "deliver"} /\ dres = Running)
      ]_vars

\* A deferred broadcast to a match with a member was entered with the flag
\* set and raised 'match stopped'.
C17_Witness ==
    /\ stopped
    /\ directory = <<MemberA>>
    /\ dcall.fn = "broadcastMessageDeferred"
    /\ dcall.filter = AbsentArray
    /\ dres = Raised(ErrMatchStopped)
    /\ deferred = <<>>
    /\ ~resolved.msg.set

(***************************************************************************)
(* Properties of the presence list                                         *)
(***************************************************************************)
\* C18: a step that changes the presence list changes nothing else: it is
\* the registry's Add or Remove.  No step of MatchInit, MatchJoinAttempt,
\* MatchJoin, MatchLeave, MatchLoop, MatchTerminate, matchKick,
\* matchLabelUpdate or a broadcast function, the resolution of a filter
\* against the list and its removals from the list ListPresenceIDs returned
\* included, adds or removes an entry.
C18_OnlyRegistryChangesDirectory ==
    [][directory' # directory =>
           UNCHANGED <<coreVars, callVars, loopVars, dpc, dcall, dres, dirAtResolve,
                       resolved, sent, deferred, kicked, regLabel>>]_vars

\* A broadcast whose two-entry filter was resolved against a presence list
\* of two members, each match being removed from the returned list, has
\* sent to both, and the presence list still holds both.
C18_Witness ==
    /\ dcall.fn = "broadcastMessage"
    /\ dcall.filter = ArrayArg("array", <<EntryB, EntryA>>)
    /\ dirAtResolve = <<MemberA, MemberB>>
    /\ dres = Returned
    /\ Len(sent) = 1
    /\ sent[1].PresenceIDs = <<PresenceID(1, "n2"), PresenceID(1, "n1")>>
    /\ directory = <<MemberA, MemberB>>
    /\ result.op = "join"

(***************************************************************************)
(* Properties of what the lifecycle calls return                           *)
(***************************************************************************)
StateCalls == {"join_attempt", "join", "leave", "loop", "terminate"}

\* C20: MatchJoinAttempt, MatchJoin, MatchLeave, MatchLoop and
\* MatchTerminate return an error or a state, never both: a call that
\* returns an error returns the nil state, and a call that returns no error
\* after its handler returned an object returns exactly the 'state' of that
\* object.
C20_ErrorOrState ==
    result.op \in StateCalls =>
        /\ result.err # "" => result.state = Nil
        /\ (result.err = "" /\ handlerRet.kind = "obj") =>
               (handlerRet.state # Absent /\ result.state = handlerRet.state)
        /\ (result.err = "" /\ handlerRet.kind # "obj") =>
               (result.op = "loop" /\ handlerRet.kind = "null" /\ result.state = Nil)

\* MatchJoin returned the error of its handler and no state.
C20_Witness ==
    /\ result.op = "join"
    /\ handlerRet = Threw
    /\ result.err = ErrHandler
    /\ result.state = Nil
    /\ consumed = 1
    /\ Label = "arena-2"

(***************************************************************************)
(* Properties of MatchLoop                                                 *)
(***************************************************************************)
\* The objects of the messages with arrival numbers a..b, in arrival order.
ArrivalObjs(a, b) == [k \in 1..(b - a + 1) |-> MsgObj(InboundMessage(a + k - 1))]
Arrivals(a, b) == [k \in 1..(b - a + 1) |-> InboundMessage(a + k - 1)]

\* C3: the loop handler is passed exactly the messages that were in the
\* channel when MatchLoop read its length, in arrival order; the messages
\* that arrived after that read are not among them and are, in arrival
\* order, what the channel holds for the next MatchLoop call.
C3_LoopObservesSnapshot ==
    loopPc = "handler" =>
        /\ Len(inputs) = size
        /\ inputs = ArrivalObjs(consumed + 1, snapNext - 1)
        /\ inputCh = Arrivals(snapNext, nextMsg - 1)

\* A handler runs with two messages while a third, enqueued after the
\* length was read, waits at the head of the channel.
C3_Witness ==
    /\ loopPc = "handler"
    /\ Len(inputs) = 2
    /\ consumed = 1
    /\ snapNext = 4
    /\ inputCh = <<InboundMessage(4)>>

\* C11: when the loop handler returns null or undefined, MatchLoop returns
\* no state and no error, so the call replaces nothing; when it returns a
\* value that is neither null nor an object, or an object without a 'state'
\* property, MatchLoop returns the error of a malformed return.
C11_LoopNullReturn ==
    result.op = "loop" =>
        /\ handlerRet.kind = "null" => result.state = Nil /\ result.err = ""
        /\ (handlerRet.kind = "nonobj"
            \/ (handlerRet.kind = "obj" /\ handlerRet.state = Absent)) =>
               result.state = Nil /\ result.err = ErrLoopObject

\* A MatchLoop call that drained two messages has returned (nil, nil) after
\* its handler returned null.
C11_Witness ==
    /\ loopPc = "idle"
    /\ result.op = "loop"
    /\ handlerRet = NullRet
    /\ result.state = Nil
    /\ result.err = ""
    /\ consumed = 2

\* C19: over every sequence of enqueues and MatchLoop calls, the messages
\* handed to handlers and the messages still in the channel are together
\* the arrivals, each once and in arrival order: a call's inputs start
\* with the message that follows the last input of the call before it,
\* whether that call returned a state, nothing, an error of the handler or
\* the error of a malformed return, and the channel holds what arrived
\* after the call's inputs.
C19_ConsumedOnceInOrder ==
    /\ consumed + Len(inputCh) + (IF loopPc = "idle" THEN 0 ELSE Len(inputs)) = nextMsg - 1
    /\ loopPc = "idle" => inputCh = Arrivals(consumed + 1, nextMsg - 1)
    /\ loopPc # "idle" =>
          /\ inputs = ArrivalObjs(consumed + 1, consumed + Len(inputs))
          /\ inputCh = Arrivals(consumed + Len(inputs) + 1, nextMsg - 1)

\* After calls that took the first three messages, the last of them ending
\* with the error of a malformed return, the next call's handler is given
\* the fourth message while the fifth waits in the channel.
C19_Witness ==
    /\ consumed = 3
    /\ result.op = "loop"
    /\ result.err = ErrLoopObject
    /\ loopPc = "handler"
    /\ inputs = <<MsgObj(InboundMessage(4))>>
    /\ inputCh = <<InboundMessage(5)>>

\* C27: with MatchLoop the only receiver, the drain never blocks and is
\* bounded: whenever the drain loop has a receive to make the channel holds
\* a message, whatever producers have enqueued meanwhile; the loop never
\* takes more than the length read at the start of the call; and every
\* drain is followed by the call of the handler.
C27_DrainTerminates ==
    /\ []((loopPc = "drain" /\ ~DrainDone) => inputCh # <<>>)
    /\ [](loopPc # "idle" => Len(inputs) <= size)
    /\ (loopPc = "drain" ~> loopPc = "handler")

\* The handler was called with the three messages the channel held at the
\* start of the call while two more, enqueued during the drain, wait.
C27_Witness ==
    /\ loopPc = "handler"
    /\ size = 3
    /\ Len(inputs) = 3
    /\ loopI = 4
    /\ Len(inputCh) = 2
    /\ snapNext = 4

(***************************************************************************)
(* Properties of the context                                               *)
(***************************************************************************)
\* The identity keys of the caller c alone: what c did not supply is not set.
OwnIdentity(c) ==
    Identity(IF c.userID = 11 THEN "a1" ELSE "a2", c.username, c.vars, c.sessionExpiry,
             IF c.sessionID = 1 THEN "u1" ELSE "u2", c.clientIP, c.clientPort)

\* C25: the match's long-lived context never holds a caller identity; the
\* context a handler was passed holds one only when that handler is the
\* join-attempt handler, and then it holds the identity of that call's
\* caller alone, with nothing of an earlier caller where this one supplied
\* no vars, client ip or client port; the handlers of MatchJoin,
\* MatchLeave, MatchLoop and MatchTerminate are passed a context without
\* caller identity, however many join attempts went before.
C25_ContextPerCall ==
    /\ ctxCaller = NoIdentity
    /\ passedCtx.identity # NoIdentity =>
          /\ result.op = "join_attempt"
          /\ loopPc # "handler"
          /\ \E c \in Callers : passedCtx.identity = OwnIdentity(c)
    /\ (result.op \in {"join", "leave", "loop", "terminate"} \/ loopPc = "handler") =>
          passedCtx = Context(passedCtx.match_label, passedCtx.match_tick_rate, NoIdentity)

\* The loop handler, called after a join attempt that was accepted, is
\* passed the match's context with its label and tick rate and no caller
\* identity.
C25_Witness ==
    /\ result.op = "join_attempt"
    /\ result.accept
    /\ loopPc = "handler"
    /\ passedCtx = Context("arena-1", 10, NoIdentity)

(***************************************************************************)
(* Properties of MatchInit                                                 *)
(***************************************************************************)
RateInRange(v) == IsInt(v) /\ v.n >= 1 /\ v.n <= 30
RestOfInitWellFormed(r) == (r.label = Absent \/ IsStr(r.label)) /\ r.state # Absent
ConfigurationErrors == {ErrInitNoRate, ErrInitRate}

\* C4: for every tick rate the init handler returns, MatchInit succeeds only
\* if the rate is an integer in 1..30 and then returns exactly that rate; a
\* rate of 0 or 31, a string, a non-integer and an omitted tick_rate fail
\* with the tick-rate error; and an integer in 1..30 succeeds (the rest of
\* the returned object, 'state' and 'label', being well formed).
C4_TickRateValidated ==
    (result.op = "init" /\ handlerRet.kind = "obj") =>
        /\ result.err = "" =>
              /\ RateInRange(handlerRet.tick_rate)
              /\ result.rate = handlerRet.tick_rate.n
        /\ ~RateInRange(handlerRet.tick_rate) =>
              /\ result.err \in ConfigurationErrors
              /\ result.rate = 0
              /\ phase = "failed"
        /\ (RateInRange(handlerRet.tick_rate) /\ RestOfInitWellFormed(handlerRet)) =>
              /\ result.err = ""
              /\ phase = "running"

C4_Witness ==
    /\ result.op = "init"
    /\ handlerRet.tick_rate = JsInt(30)
    /\ result.err = ""
    /\ result.rate = 30

\* C5: after MatchInit succeeds the match is running with the returned tick
\* rate and Label() returns the returned label (the empty string when the
\* label is omitted).
C5_LabelAfterInit ==
    (result.op = "init" /\ result.err = "") =>
        /\ phase = "running"
        /\ ctxTickRate = handlerRet.tick_rate.n
        /\ Label = (IF handlerRet.label = Absent THEN "" ELSE handlerRet.label.s)

(***************************************************************************)
(* Properties of MatchJoinAttempt                                          *)
(***************************************************************************)
JoinAttemptErrors ==
    {ErrJoinAttemptObject, ErrJoinAttemptNoAccept, ErrJoinAttemptAccept,
     ErrJoinAttemptRejectMsg, ErrJoinAttemptState}

\* C9: MatchJoinAttempt returns the handler's state and its 'accept' value;
\* with accept false and a string reject_msg the reason is that string; with
\* accept true reject_msg is not read: the reason is empty and a reject_msg
\* of any type is no error.
C9_JoinAttemptReturn ==
    (/\ result.op = "join_attempt"
     /\ handlerRet.kind = "obj"
     /\ IsBool(handlerRet.accept)
     /\ handlerRet.state # Absent) =>
        /\ handlerRet.accept = JsBool(TRUE) =>
              /\ result.err = ""
              /\ result.state = handlerRet.state
              /\ result.accept = TRUE
              /\ result.reason = ""
        /\ (handlerRet.accept = JsBool(FALSE) /\ IsStr(handlerRet.reject_msg)) =>
              /\ result.err = ""
              /\ result.state = handlerRet.state
              /\ result.accept = FALSE
              /\ result.reason = handlerRet.reject_msg.s

C9_Witness ==
    /\ result.op = "join_attempt"
    /\ handlerRet.accept = JsBool(FALSE)
    /\ handlerRet.reject_msg = JsStr("full")
    /\ handlerRet.state = JsState("s1")
    /\ result = CallResult("join_attempt", JsState("s1"), 0, FALSE, "full", "")

MalformedJoinAttempt(r) ==
    \/ r.kind \in {"nonobj", "null"}
    \/ /\ r.kind = "obj"
       /\ \/ r.accept = Absent
          \/ ~IsBool(r.accept)
          \/ r.accept = JsBool(FALSE) /\ r.reject_msg # Absent /\ ~IsStr(r.reject_msg)
          \/ r.state = Absent

\* C10: a join-attempt return value that is not an object, lacks 'accept',
\* has a non-boolean 'accept', has accept false with a non-string
\* 'reject_msg', or lacks 'state' makes MatchJoinAttempt fail with a
\* protocol violation and return no state, accepted false and no reason.
C10_JoinAttemptProtocolViolation ==
    (result.op = "join_attempt" /\ MalformedJoinAttempt(handlerRet)) =>
        /\ result.err \in JoinAttemptErrors
        /\ result.state = Nil
        /\ result.accept = FALSE
        /\ result.reason = ""

C10_Witness ==
    /\ result.op = "join_attempt"
    /\ handlerRet.kind = "obj"
    /\ handlerRet.accept = JsBool(TRUE)
    /\ handlerRet.state = Absent
    /\ result.err = ErrJoinAttemptState
    /\ result.accept = FALSE

====
